---- MODULE Spec2Model ----
(***************************************************************************)
(* QGIS2SWMM core (src/swmm_core.py): the three feature layers and the     *)
(* batch operations of SWMMCore that mutate them in place.                 *)
(*                                                                         *)
(* Representation.                                                         *)
(*   - A string is a sequence of one-character strings, so that            *)
(*     str.strip() and the f-string "{prefix}{counter}" are computed.      *)
(*   - An attribute value is <<>> (NULL) or <<v>> (the value v).           *)
(*   - A length or coordinate is an integer number of 1/10000 m, so that   *)
(*     round(x, 3) is a real rounding (to a multiple of 10).               *)
(*   - A layer is the sequence of its features in getFeatures() order;     *)
(*     a feature's id (feat.id()) is its index in that sequence.           *)
(***************************************************************************)
EXTENDS Integers, Sequences, FiniteSets, TLC

VARIABLES
    nodes,      \* SWMM_Nodes features
    links,      \* SWMM_Links features
    subcats,    \* SWMM_Subcatchments features
    project,    \* names of the vector layers loaded in QgsProject
    core,       \* SWMMCore.nodes_layer / links_layer / subcatchments_layer
    nn,         \* answer of QgsSpatialIndex.nearestNeighbor(point, 1)[0]
    dem,        \* the DEM raster layer: extent and provider.sample
    call,       \* the core operation that ran last, with its arguments
    ret,        \* the value it returned
    prev,       \* layers, call and ret as they were before the last core operation
    exporter,   \* SWMMExporter.project_title
    file,       \* the lines of the text written to the export file path
    editing     \* names of the layers with an open edit session (isEditable())

vars == <<nodes, links, subcats, project, core, nn, dem, call, ret, prev,
          exporter, file, editing>>

-----------------------------------------------------------------------------
(* Bounds of the model.                                                    *)

MaxNodes == 2       \* nodes in the topology and elevation inputs
MaxFeatures == 3    \* node features in the ID generation inputs

-----------------------------------------------------------------------------
(* Python values.                                                          *)

NULL == <<>>
Some(v) == <<v>>
IsNull(a) == a = <<>>
Val(a) == a[1]

EmptyStr == <<>>
Space == " "

\* bool(value) of a string attribute: NULL and '' are falsy.
Truthy(a) == ~IsNull(a) /\ Val(a) # EmptyStr

RECURSIVE LStrip(_)
LStrip(s) == IF s # <<>> /\ Head(s) = Space THEN LStrip(Tail(s)) ELSE s

RECURSIVE RStrip(_)
RStrip(s) ==
    IF s # <<>> /\ s[Len(s)] = Space THEN RStrip(SubSeq(s, 1, Len(s) - 1)) ELSE s

\* str.strip()
Strip(s) == RStrip(LStrip(s))

Digit(d) == <<"0", "1", "2", "3", "4", "5", "6", "7", "8", "9">>[d + 1]

\* str(n) of a non-negative integer
RECURSIVE Str(_)
Str(n) == IF n < 10 THEN <<Digit(n)>> ELSE Str(n \div 10) \o <<Digit(n % 10)>>

\* round(x, 3) of a value held in 1/10000: the nearest multiple of 10.
\* No input of the model ends in 5, the one case that depends on the
\* binary representation of the float.
Round3(v) == IF v % 10 >= 5 THEN ((v \div 10) + 1) * 10 ELSE (v \div 10) * 10

\* dict[key] = value
DictPut(d, key, value) ==
    [k \in (DOMAIN d) \cup {key} |-> IF k = key THEN value ELSE d[k]]

EmptyDict == <<>>

-----------------------------------------------------------------------------
(* Layers.                                                                 *)

NODES_LAYER_NAME == "SWMM_Nodes"
LINKS_LAYER_NAME == "SWMM_Links"
SUBCATCHMENTS_LAYER_NAME == "SWMM_Subcatchments"

LayerNames == {NODES_LAYER_NAME, LINKS_LAYER_NAME, SUBCATCHMENTS_LAYER_NAME}

\* _find_existing_layers: a handle is set for each layer found by name in the
\* project; a handle already held is never cleared.
FindExistingLayers(c) == c \cup project

Fids(layer) == DOMAIN layer

\* layer.changeAttributeValue(fid, idx, value)
ChangeAttributeValue(feat, field, value) == [feat EXCEPT ![field] = value]

\* layer.startEditing(): the layer is in an edit session from here on
StartEditing(sessions, name) == sessions \cup {name}

\* layer.commitChanges() that leaves the edit session open
CommitChangesKeepsEditing(sessions, name) == sessions

\* layer.commitChanges(): the changes are written and the edit session ends
CommitChanges(sessions, name) == sessions \ {name}

\* startEditing() ... commitChanges() around the changes of one layer
EditAndCommit(sessions, name) == CommitChanges(StartEditing(sessions, name), name)

\* link_id = str(feat['ID']) if feat['ID'] else str(feat.id())
FeatureKey(layer, fid) ==
    IF Truthy(layer[fid].ID) THEN Val(layer[fid].ID) ELSE Str(fid)

\* SWMMExporter(): the default project title
NoExporter == [project_title |-> <<"SWMM Drainage Project">>]

\* Nothing written to the export file path yet
NoFile == <<>>

Snapshot == [nodes |-> nodes, links |-> links, subcats |-> subcats,
             call |-> call, ret |-> ret]

-----------------------------------------------------------------------------
(* Features.  A feature just digitized has every attribute NULL.           *)

NodeFeature(point, id) ==
    [geom |-> point, ID |-> id, InvertElev |-> NULL, MaxDepth |-> NULL,
     X |-> NULL, Y |-> NULL]

LinkFeature(vertices, id) ==
    [geom |-> vertices, ID |-> id, InletNode |-> NULL, OutletNode |-> NULL,
     Length |-> NULL, ManningN |-> NULL, InOffset |-> NULL, OutOffset |-> NULL]

\* A polygon geometry: its parts, each a sequence of rings, each ring a
\* sequence of points; isMultipart() tells a MultiPolygon from a Polygon.
PolygonGeometry(multipart, polygons) == [multipart |-> multipart, polygons |-> polygons]

\* A Polygon of one part
SinglePolygon(rings) == PolygonGeometry(FALSE, <<rings>>)

SubcatFeature(geom, id) ==
    [geom |-> geom, ID |-> id, RainGage |-> NULL, Outlet |-> NULL,
     Area |-> NULL, PercImperv |-> NULL, Width |-> NULL, Slope |-> NULL]

\* The sequences over S of length 0 .. n
SeqUpTo(S, n) == UNION {[1..k -> S] : k \in 0..n}

-----------------------------------------------------------------------------
(* LINK TOPOLOGY (AUTO SNAP)                                               *)

\* Positions used by the topology inputs, in 1/10000 m: PB and PC both lie
\* exactly 1 m from PA, and 0.632 m from each other.
PA == <<0, 0>>
PB == <<0, 10000>>
PC == <<6000, 8000>>
SnapPoints == {PA, PB, PC}

\* The closed triangle PA PB PC as a Polygon of one ring
Triangle == SinglePolygon(<< <<PA, PB, PC, PA>> >>)

\* snap_distance values, in 1/10000 m: 0, 0.7 m, 1 m
Tolerances == {0, 7000, 10000}

\* QgsPointXY.distance, squared
SqrDist(p, q) ==
    (p[1] - q[1]) * (p[1] - q[1]) + (p[2] - q[2]) * (p[2] - q[2])

\* The nodes no other node is nearer to the point than: what
\* nearestNeighbor(point, 1) may answer.  Which of several equidistant nodes
\* comes first is not specified; it is a function of the features inserted,
\* held in nn.
NearestNodes(ns, point) ==
    {i \in Fids(ns) : \A j \in Fids(ns) :
        SqrDist(ns[i].geom, point) <= SqrDist(ns[j].geom, point)}

\* The points the index is queried at: the ends of the link geometries below.
QueryPoints == {PA, PB}

IndexAnswers(ns) ==
    {f \in [QueryPoints -> 0..Len(ns)] :
        \A p \in QueryPoints :
            IF ns = <<>> THEN f[p] = 0 ELSE f[p] \in NearestNodes(ns, p)}

\* candidates = index.nearestNeighbor(point, 1)
NearestNeighborUnstable(point) ==
    IF nodes = <<>> THEN <<>>
    ELSE LET near == NearestNodes(nodes, point)
             lo == CHOOSE i \in near : \A j \in near : i <= j
             hi == CHOOSE i \in near : \A j \in near : i >= j
         IN  IF call.op = "auto_snap_links_to_nodes" THEN <<hi>> ELSE <<lo>>

NearestNeighbor(point) == IF nn[point] = 0 THEN <<>> ELSE <<nn[point]>>

\* dist <= max_dist
WithinDistStrict(dist2, max_dist) == max_dist >= 0 /\ dist2 < max_dist * max_dist

WithinDist(dist2, max_dist) == max_dist >= 0 /\ dist2 <= max_dist * max_dist

\* _find_nearest_node without the distance test
FindNearestNodeNoCheck(point, max_dist) ==
    LET candidates == NearestNeighbor(point)
    IN  IF candidates = <<>> THEN EmptyStr
        ELSE LET node_feat == nodes[candidates[1]]
             IN  IF Truthy(node_feat.ID) THEN Val(node_feat.ID) ELSE EmptyStr

\* _find_nearest_node: the ID of the nearest node within max_dist, or ''
FindNearestNode(point, max_dist) ==
    LET candidates == NearestNeighbor(point)
    IN  IF candidates = <<>> THEN EmptyStr
        ELSE LET node_feat == nodes[candidates[1]]
                 dist2 == SqrDist(point, node_feat.geom)
             IN  IF WithinDist(dist2, max_dist)
                 THEN IF Truthy(node_feat.ID) THEN Val(node_feat.ID) ELSE EmptyStr
                 ELSE EmptyStr

\* geom.isEmpty() or len(vertices) < 2: the link is skipped
SkipsLink(link) == Len(link.geom) < 2

StartPt(vertices) == vertices[1]

EndPt(vertices) == vertices[Len(vertices)]

\* if inlet_id or outlet_id
SnapResolvesBoth(inlet_id, outlet_id) == inlet_id # EmptyStr /\ outlet_id # EmptyStr

SnapResolves(inlet_id, outlet_id) == inlet_id # EmptyStr \/ outlet_id # EmptyStr

\* One pass of the loop over links_layer.getFeatures()
SnapLink(link, snap_distance) ==
    IF SkipsLink(link) THEN link
    ELSE LET inlet_id == FindNearestNode(StartPt(link.geom), snap_distance)
             outlet_id == FindNearestNode(EndPt(link.geom), snap_distance)
         IN  IF SnapResolves(inlet_id, outlet_id)
             THEN ChangeAttributeValue(
                      ChangeAttributeValue(link, "InletNode", Some(inlet_id)),
                      "OutletNode", Some(outlet_id))
             ELSE link

\* snapped, after the first n links
RECURSIVE Snapped(_, _)
Snapped(n, snap_distance) ==
    IF n = 0 THEN EmptyDict
    ELSE LET before == Snapped(n - 1, snap_distance)
             link == links[n]
         IN  IF SkipsLink(link) THEN before
             ELSE LET inlet_id == FindNearestNode(StartPt(link.geom), snap_distance)
                      outlet_id == FindNearestNode(EndPt(link.geom), snap_distance)
                  IN  IF SnapResolves(inlet_id, outlet_id)
                      THEN DictPut(before, FeatureKey(links, n), <<inlet_id, outlet_id>>)
                      ELSE before

AutoSnapLinksToNodes(snap_distance) ==
    LET found == FindExistingLayers(core)
    IN  /\ core' = found
        /\ call' = [op |-> "auto_snap_links_to_nodes", arg |-> snap_distance]
        /\ prev' = Snapshot
        /\ IF LINKS_LAYER_NAME \notin found \/ NODES_LAYER_NAME \notin found
           THEN /\ ret' = EmptyDict
                /\ links' = links
                /\ editing' = editing
           ELSE /\ links' = [i \in Fids(links) |-> SnapLink(links[i], snap_distance)]
                /\ editing' = EditAndCommit(editing, LINKS_LAYER_NAME)
                /\ ret' = Snapped(Len(links), snap_distance)
        /\ UNCHANGED <<nodes, subcats, project, nn, dem, exporter, file>>

\* Inputs of the topology specification
SnapNodeIds(fid) == {NULL, Some(<<"N">> \o Str(fid))}

SnapNodeLayers ==
    UNION {{ns \in [1..k -> [geom : SnapPoints, ID : {NULL} \cup UNION {SnapNodeIds(f) : f \in 1..k},
                             InvertElev : {NULL}, MaxDepth : {NULL}, X : {NULL}, Y : {NULL}]] :
               \A f \in 1..k : ns[f].ID \in SnapNodeIds(f)} : k \in 0..MaxNodes}

\* Link geometries: no vertex, one vertex, a segment from PA to PB, the same
\* through PC, and a segment back from PB to PA.  The node positions range
\* over all of SnapPoints, so every relative position of endpoint and node
\* occurs.
SnapLinkGeoms == {<<>>, <<PA>>, <<PA, PB>>, <<PA, PC, PB>>, <<PB, PA>>}

SnapLinkIds == {NULL, Some(<<"L", "1">>)}

\* At most two links: enough for two links to share a link_id.
SnapLinkLayers ==
    SeqUpTo({LinkFeature(g, id) : g \in SnapLinkGeoms, id \in SnapLinkIds}, 2)

\* The project holds all three layers, or lacks the nodes or the links layer.
SnapProjects ==
    {LayerNames, LayerNames \ {NODES_LAYER_NAME}, LayerNames \ {LINKS_LAYER_NAME}}

NoDem == [xMinimum |-> 0, xMaximum |-> 0, yMinimum |-> 0, yMaximum |-> 0, sample |-> <<>>]

NoCall == [op |-> "init", arg |-> 0]

InitSnap ==
    /\ project \in SnapProjects
    /\ nodes \in (IF NODES_LAYER_NAME \in project THEN SnapNodeLayers ELSE {<<>>})
    /\ links \in (IF LINKS_LAYER_NAME \in project THEN SnapLinkLayers ELSE {<<>>})
    /\ subcats = <<>>
    /\ core = FindExistingLayers({})
    /\ nn \in IndexAnswers(nodes)
    /\ dem = NoDem
    /\ exporter = NoExporter
    /\ file = NoFile
    /\ editing = {}
    /\ call = NoCall
    /\ ret = EmptyDict
    /\ prev = [nodes |-> nodes, links |-> links, subcats |-> subcats,
               call |-> NoCall, ret |-> EmptyDict]

NextSnap == \E snap_distance \in Tolerances : AutoSnapLinksToNodes(snap_distance)

SpecSnap == InitSnap /\ [][NextSnap]_vars

-----------------------------------------------------------------------------
(* AUTO ID GENERATION                                                      *)

\* if val and str(val).strip(): the ID counts as existing
HasId(val) == Truthy(val) /\ Strip(Val(val)) # EmptyStr

\* if (not val) or str(val).strip(), the test with its second `not` dropped
IsBlankIdInverted(val) == ~Truthy(val) \/ Strip(Val(val)) # EmptyStr

\* if not val or not str(val).strip(): the feature gets a generated ID
IsBlankId(val) == ~Truthy(val) \/ Strip(Val(val)) = EmptyStr

\* existing, before the second loop
ExistingIds(layer) ==
    {Strip(Val(layer[i].ID)) : i \in {j \in Fids(layer) : HasId(layer[j].ID)}}

\* counter = len(existing) + 1
InitialCounterAfterExisting(existing) == Cardinality(existing) + 1

\* counter = 1
InitialCounter(existing) == 1

\* the loop without its test: the counter as it stands
NextFreeNoCheck(counter, existing, prefix) == counter

\* while f"{prefix}{counter}" in existing: counter += 1
RECURSIVE NextFree(_, _, _)
NextFree(counter, existing, prefix) ==
    IF (prefix \o Str(counter)) \in existing
    THEN NextFree(counter + 1, existing, prefix)
    ELSE counter

\* The second loop of _fill_ids after its first n features
RECURSIVE FillLoop(_, _, _)
FillLoop(layer, prefix, n) ==
    IF n = 0
    THEN [layer |-> layer, existing |-> ExistingIds(layer),
          counter |-> InitialCounter(ExistingIds(layer)), generated |-> 0]
    ELSE LET st == FillLoop(layer, prefix, n - 1)
         IN  IF IsBlankId(layer[n].ID)
             THEN LET free == NextFree(st.counter, st.existing, prefix)
                      new_id == prefix \o Str(free)
                  IN  [layer |-> [st.layer EXCEPT
                                     ![n] = ChangeAttributeValue(@, "ID", Some(new_id))],
                       existing |-> st.existing \cup {new_id},
                       counter |-> free + 1,
                       generated |-> st.generated + 1]
             ELSE st

\* _fill_ids counting the IDs it generates without writing them to the layer
FillIdsCountsOnly(present, layer, prefix) ==
    IF ~present THEN [layer |-> layer, generated |-> 0]
    ELSE [layer |-> layer, generated |-> FillLoop(layer, prefix, Len(layer)).generated]

\* _fill_ids: the layer as committed and the number of IDs generated; a
\* layer that is not there is left alone and counts 0.
FillIds(present, layer, prefix) ==
    IF ~present THEN [layer |-> layer, generated |-> 0]
    ELSE LET st == FillLoop(layer, prefix, Len(layer))
         IN  [layer |-> st.layer, generated |-> st.generated]

\* The edit sessions after _fill_ids: none is begun for a layer that is not
\* there.
FillIdsSessions(present, sessions, name) ==
    IF ~present THEN sessions ELSE EditAndCommit(sessions, name)

GenerateAutoIds ==
    LET found == FindExistingLayers(core)
        n == FillIds(NODES_LAYER_NAME \in found, nodes, <<"N">>)
        l == FillIds(LINKS_LAYER_NAME \in found, links, <<"L">>)
        c == FillIds(SUBCATCHMENTS_LAYER_NAME \in found, subcats, <<"S">>)
    IN  /\ core' = found
        /\ call' = [op |-> "generate_auto_ids", arg |-> 0]
        /\ prev' = Snapshot
        /\ nodes' = n.layer
        /\ links' = l.layer
        /\ subcats' = c.layer
        /\ editing' =
             FillIdsSessions(SUBCATCHMENTS_LAYER_NAME \in found,
                 FillIdsSessions(LINKS_LAYER_NAME \in found,
                     FillIdsSessions(NODES_LAYER_NAME \in found, editing,
                                     NODES_LAYER_NAME),
                     LINKS_LAYER_NAME),
                 SUBCATCHMENTS_LAYER_NAME)
        /\ ret' = [nodes |-> n.generated, links |-> l.generated,
                   subcatchments |-> c.generated]
        /\ UNCHANGED <<project, nn, dem, exporter, file>>

\* Inputs of the ID generation specification: NULL, '', ' ', and IDs with and
\* without surrounding blanks.
IdValues(prefix) ==
    {NULL, Some(EmptyStr), Some(<<Space>>),
     Some(prefix \o <<"1">>), Some(<<Space>> \o prefix \o <<"1", Space>>),
     Some(prefix \o <<"2">>), Some(prefix \o <<"3">>)}

IdNodeLayers == SeqUpTo({NodeFeature(PA, id) : id \in IdValues(<<"N">>)}, MaxFeatures)

IdLinkLayers ==
    SeqUpTo({LinkFeature(<<PA, PB>>, id) : id \in {NULL, Some(<<"L", "1">>)}}, 1)

IdSubcatLayers ==
    SeqUpTo({SubcatFeature(Triangle, id) : id \in {NULL, Some(<<"S", "1">>)}}, 1)

\* The project holds all three layers, or lacks the subcatchments layer.
IdProjects == {LayerNames, LayerNames \ {SUBCATCHMENTS_LAYER_NAME}}

\* No topology run, no index: the operations below put no query to it.
NoIndex == [p \in QueryPoints |-> 0]

InitIds ==
    /\ project \in IdProjects
    /\ nodes \in IdNodeLayers
    /\ links \in IdLinkLayers
    /\ subcats \in (IF SUBCATCHMENTS_LAYER_NAME \in project THEN IdSubcatLayers ELSE {<<>>})
    /\ core = FindExistingLayers({})
    /\ nn = NoIndex
    /\ dem = NoDem
    /\ exporter = NoExporter
    /\ file = NoFile
    /\ editing = {}
    /\ call = NoCall
    /\ ret = EmptyDict
    /\ prev = [nodes |-> nodes, links |-> links, subcats |-> subcats,
               call |-> NoCall, ret |-> EmptyDict]

NextIds == GenerateAutoIds

SpecIds == InitIds /\ [][NextIds]_vars

-----------------------------------------------------------------------------
(* ELEVATIONS FROM DEM                                                     *)

\* extent.contains(QgsPointXY(x, y)): the borders belong to the extent
ExtentContains(layer, x, y) ==
    /\ layer.xMinimum <= x /\ x <= layer.xMaximum
    /\ layer.yMinimum <= y /\ y <= layer.yMaximum

\* if result is not None, the test without `ok`
SampleValidWithoutOk(result, ok) == ~IsNull(result)

\* if ok and result is not None
SampleValid(result, ok) == ok /\ ~IsNull(result)

\* both coordinates written to the X field
StoreCoordinatesSameField(feat, x, y) ==
    ChangeAttributeValue(ChangeAttributeValue(feat, "X", Some(Round3(x))),
                         "X", Some(Round3(y)))

\* Store coordinates in attributes
StoreCoordinates(feat, x, y) ==
    ChangeAttributeValue(ChangeAttributeValue(feat, "X", Some(Round3(x))),
                         "Y", Some(Round3(y)))

\* f"Updated {successful}/{total} nodes. {outside} outside DEM bounds."
SyncMessage(total, successful, outside) ==
    <<"Updated ", Str(successful), "/", Str(total), " nodes. ", Str(outside),
      " outside DEM bounds.">>

\* The loop of sync_elevations_from_dem after its first n nodes
RECURSIVE SyncLoop(_, _)
SyncLoop(dem_layer, n) ==
    IF n = 0
    THEN [layer |-> nodes, total |-> 0, successful |-> 0, outside |-> 0]
    ELSE LET st == SyncLoop(dem_layer, n - 1)
             x == nodes[n].geom[1]
             y == nodes[n].geom[2]
             feat == StoreCoordinates(st.layer[n], x, y)
         IN  IF ~ExtentContains(dem_layer, x, y)
             THEN [st EXCEPT !.layer[n] = feat, !.total = @ + 1, !.outside = @ + 1]
             ELSE LET sampled == dem_layer.sample[<<x, y>>]
                      result == sampled[1]
                      ok == sampled[2]
                  IN  IF SampleValid(result, ok)
                      THEN [st EXCEPT
                               !.layer[n] = ChangeAttributeValue(
                                                feat, "InvertElev", Some(Round3(Val(result)))),
                               !.total = @ + 1, !.successful = @ + 1]
                      ELSE [st EXCEPT !.layer[n] = feat, !.total = @ + 1,
                                      !.outside = @ + 1]

SyncElevationsFromDem(dem_layer) ==
    LET found == FindExistingLayers(core)
    IN  /\ core' = found
        /\ call' = [op |-> "sync_elevations_from_dem", arg |-> 0]
        /\ prev' = Snapshot
        /\ IF NODES_LAYER_NAME \notin found
           THEN /\ nodes' = nodes
                /\ editing' = editing
                /\ ret' = [_summary |->
                              [total_nodes |-> 0, successful |-> 0, outside_dem |-> 0,
                               message |-> <<"Nodes layer not found.">>]]
           ELSE LET st == SyncLoop(dem_layer, Len(nodes))
                IN  /\ nodes' = st.layer
                    /\ editing' = EditAndCommit(editing, NODES_LAYER_NAME)
                    /\ ret' = [_summary |->
                                  [total_nodes |-> st.total,
                                   successful |-> st.successful,
                                   outside_dem |-> st.outside,
                                   message |-> SyncMessage(st.total, st.successful,
                                                           st.outside)]]
        /\ UNCHANGED <<links, subcats, project, nn, dem, exporter, file>>

\* Inputs of the elevation specification, in 1/10000 m.  The raster covers
\* 0 .. 3 m in both directions.  PIn lies inside, PEdge on the border, POut
\* 0.4 mm beyond it; PIn and POut have digits below the millimetre.
PIn == <<12344, 20006>>
PEdge == <<30000, 10000>>
POut == <<30004, 10000>>
ElevPoints == {PIn, PEdge, POut}

ElevExtent == [xMinimum |-> 0, xMaximum |-> 30000, yMinimum |-> 0, yMaximum |-> 30000]

\* What provider.sample may answer at a point of the extent: an elevation of
\* 123.4567 m or of 0 m, or no value, each with ok true or false.
SampleAnswers == {Some(1234567), Some(0), NULL} \X BOOLEAN

Dems ==
    {[xMinimum |-> ElevExtent.xMinimum, xMaximum |-> ElevExtent.xMaximum,
      yMinimum |-> ElevExtent.yMinimum, yMaximum |-> ElevExtent.yMaximum,
      sample |-> f] : f \in [{PIn, PEdge} -> SampleAnswers]}

\* An elevation entered or synchronized before: 5 m
ElevNodeFeatures ==
    {[NodeFeature(p, NULL) EXCEPT !.InvertElev = e] :
        p \in ElevPoints, e \in {NULL, Some(50000)}}

ElevNodeLayers == SeqUpTo(ElevNodeFeatures, MaxNodes)

\* The project holds all three layers, or lacks the nodes layer.
ElevProjects == {LayerNames, LayerNames \ {NODES_LAYER_NAME}}

InitElev ==
    /\ project \in ElevProjects
    /\ nodes \in (IF NODES_LAYER_NAME \in project THEN ElevNodeLayers ELSE {<<>>})
    /\ links = <<>>
    /\ subcats = <<>>
    /\ core = FindExistingLayers({})
    /\ nn = NoIndex
    /\ dem \in Dems
    /\ exporter = NoExporter
    /\ file = NoFile
    /\ editing = {}
    /\ call = NoCall
    /\ ret = EmptyDict
    /\ prev = [nodes |-> nodes, links |-> links, subcats |-> subcats,
               call |-> NoCall, ret |-> EmptyDict]

NextElev == SyncElevationsFromDem(dem)

SpecElev == InitElev /\ [][NextElev]_vars

-----------------------------------------------------------------------------
(* VALIDATION                                                              *)

\* bool(x) of a numeric attribute: NULL and 0 are falsy
NumTruthy(a) == ~IsNull(a) /\ Val(a) # 0

\* feat['ID'] or f"fid={feat.id()}"
FeatureName(feat, fid) ==
    IF Truthy(feat.ID) THEN Val(feat.ID) ELSE <<"f", "i", "d", "=">> \o Str(fid)

\* f"{fid}: missing ID" and the like: the name, then the text
Message(name, text) == name \o <<text>>

\* not feat['ID'], not feat['InletNode'], not feat['OutletNode']
MissingText(val) == ~Truthy(val)

\* not feat['InvertElev']
ElevMissingWhenFalsy(val) == ~NumTruthy(val)

\* feat['InvertElev'] is None
ElevMissing(val) == IsNull(val)

\* not feat['Length'] or feat['Length'] == 0
ZeroOrMissing(val) == ~NumTruthy(val) \/ Val(val) = 0

\* One message when the check fails, none otherwise
ErrorIf(failed, name, text) == IF failed THEN <<Message(name, text)>> ELSE <<>>

\* The node checks as an if / elif chain
NodeErrorsFirstOnly(feat, fid) ==
    LET name == FeatureName(feat, fid)
    IN  IF MissingText(feat.ID)
        THEN <<Message(name, ": missing ID")>>
        ELSE ErrorIf(ElevMissing(feat.InvertElev), name, ": missing InvertElev")

NodeErrors(feat, fid) ==
    LET name == FeatureName(feat, fid)
    IN  ErrorIf(MissingText(feat.ID), name, ": missing ID")
        \o ErrorIf(ElevMissing(feat.InvertElev), name, ": missing InvertElev")

LinkErrors(feat, fid) ==
    LET name == FeatureName(feat, fid)
    IN  ErrorIf(MissingText(feat.ID), name, ": missing ID")
        \o ErrorIf(MissingText(feat.InletNode), name, ": missing InletNode")
        \o ErrorIf(MissingText(feat.OutletNode), name, ": missing OutletNode")
        \o ErrorIf(ZeroOrMissing(feat.Length), name, ": Length is 0 or missing")

SubcatErrors(feat, fid) ==
    LET name == FeatureName(feat, fid)
    IN  ErrorIf(MissingText(feat.ID), name, ": missing ID")
        \o ErrorIf(ZeroOrMissing(feat.Area), name, ": Area is 0 or missing")
        \o ErrorIf(ZeroOrMissing(feat.Width), name, ": Width is 0 or missing")
        \o ErrorIf(ZeroOrMissing(feat.Slope), name, ": Slope is 0 or missing")

\* The lists of a sequence of lists, one after the other
RECURSIVE ConcatUpTo(_, _)
ConcatUpTo(lists, n) ==
    IF n = 0 THEN <<>> ELSE ConcatUpTo(lists, n - 1) \o lists[n]

ConcatAll(lists) == ConcatUpTo(lists, Len(lists))

\* A missing layer gets no message
LayerErrorsNoneWhenMissing(present, found) == IF present THEN found ELSE <<>>

\* errors[...] of one layer: the messages of its features, or "Layer not found"
LayerErrors(present, found) == IF present THEN found ELSE << <<"Layer not found">> >>

ValidateLayerCompleteness ==
    LET found == FindExistingLayers(core)
    IN  /\ core' = found
        /\ call' = [op |-> "validate_layer_completeness", arg |-> 0]
        /\ prev' = Snapshot
        /\ ret' =
             [Nodes |->
                  LayerErrors(NODES_LAYER_NAME \in found,
                              ConcatAll([i \in Fids(nodes) |-> NodeErrors(nodes[i], i)])),
              Links |->
                  LayerErrors(LINKS_LAYER_NAME \in found,
                              ConcatAll([i \in Fids(links) |-> LinkErrors(links[i], i)])),
              Subcatchments |->
                  LayerErrors(SUBCATCHMENTS_LAYER_NAME \in found,
                              ConcatAll([i \in Fids(subcats) |->
                                             SubcatErrors(subcats[i], i)]))]
        /\ UNCHANGED <<nodes, links, subcats, project, nn, dem, exporter, file, editing>>

\* Inputs of the validation specification.  IDs: NULL, '', ' ' and 'N1';
\* elevations: NULL, 0 m and 5 m.
ValidNodeFeatures ==
    {[NodeFeature(PA, id) EXCEPT !.InvertElev = e] :
        id \in {NULL, Some(EmptyStr), Some(<<Space>>), Some(<<"N", "1">>)},
        e \in {NULL, Some(0), Some(50000)}}

ValidNodeLayers == SeqUpTo(ValidNodeFeatures, MaxNodes)

\* At most one link: references NULL, ' ' or 'N1'; lengths NULL, 0 and 1 m
ValidLinkFeatures ==
    {[LinkFeature(<<PA, PB>>, id) EXCEPT !.InletNode = r[1], !.OutletNode = r[2],
                                          !.Length = len] :
        id \in {NULL, Some(<<"L", "1">>)},
        r \in {<<NULL, NULL>>, <<Some(<<"N", "1">>), Some(EmptyStr)>>,
               <<Some(<<Space>>), Some(<<"N", "1">>)>>,
               <<Some(<<"N", "1">>), Some(<<"N", "1">>)>>},
        len \in {NULL, Some(0), Some(10000)}}

ValidLinkLayers == SeqUpTo(ValidLinkFeatures, 1)

\* At most one subcatchment: area, width and slope NULL, 0 or set
ValidSubcatFeatures ==
    {[SubcatFeature(Triangle, id) EXCEPT !.Area = q[1], !.Width = q[2],
                                                   !.Slope = q[3]] :
        id \in {NULL, Some(<<"S", "1">>)},
        q \in {<<NULL, NULL, NULL>>, <<Some(0), Some(30000), Some(5000)>>,
               <<Some(20000), Some(0), Some(5000)>>, <<Some(20000), Some(30000), Some(0)>>,
               <<Some(20000), Some(30000), Some(5000)>>}}

ValidSubcatLayers == SeqUpTo(ValidSubcatFeatures, 1)

\* The project holds any of the three layers.
ValidProjects == SUBSET LayerNames

InitValid ==
    /\ project \in ValidProjects
    /\ nodes \in (IF NODES_LAYER_NAME \in project THEN ValidNodeLayers ELSE {<<>>})
    /\ links \in (IF LINKS_LAYER_NAME \in project THEN ValidLinkLayers ELSE {<<>>})
    /\ subcats \in (IF SUBCATCHMENTS_LAYER_NAME \in project
                    THEN ValidSubcatLayers ELSE {<<>>})
    /\ core = FindExistingLayers({})
    /\ nn = NoIndex
    /\ dem = NoDem
    /\ exporter = NoExporter
    /\ file = NoFile
    /\ editing = {}
    /\ call = NoCall
    /\ ret = EmptyDict
    /\ prev = [nodes |-> nodes, links |-> links, subcats |-> subcats,
               call |-> NoCall, ret |-> EmptyDict]

NextValid == ValidateLayerCompleteness

SpecValid == InitValid /\ [][NextValid]_vars

\* ID generation and validation in any order, from the inputs of the ID generation
NextIdsValid == GenerateAutoIds \/ ValidateLayerCompleteness

SpecIdsValid == InitIds /\ [][NextIdsValid]_vars

-----------------------------------------------------------------------------
(* DATA EXTRACTION FOR EXPORT                                              *)

\* feature['X'] if feature['X'] else point.x()
AttrOrCoord(attr, coord) == IF NumTruthy(attr) THEN attr ELSE Some(coord)

\* get_nodes_data: one dict for each node
GetNodesData(found) ==
    IF NODES_LAYER_NAME \notin found THEN <<>>
    ELSE [i \in Fids(nodes) |->
             [ID |-> nodes[i].ID,
              InvertElev |-> nodes[i].InvertElev,
              MaxDepth |-> nodes[i].MaxDepth,
              X |-> AttrOrCoord(nodes[i].X, nodes[i].geom[1]),
              Y |-> AttrOrCoord(nodes[i].Y, nodes[i].geom[2])]]

\* get_links_data: one dict for each link
GetLinksData(found) ==
    IF LINKS_LAYER_NAME \notin found THEN <<>>
    ELSE [i \in Fids(links) |->
             [ID |-> links[i].ID,
              InletNode |-> links[i].InletNode,
              OutletNode |-> links[i].OutletNode,
              Length |-> links[i].Length,
              ManningN |-> links[i].ManningN,
              InOffset |-> links[i].InOffset,
              OutOffset |-> links[i].OutOffset]]

\* {'x': point.x(), 'y': point.y()}
Vertex(point) == [x |-> Some(point[1]), y |-> Some(point[2])]

\* for ring in polygon: for point in ring: vertices.append(...)
PolygonVertices(polygon) ==
    ConcatAll([r \in DOMAIN polygon |->
                   [k \in DOMAIN polygon[r] |-> Vertex(polygon[r][k])]])

\* The vertices list of get_subcatchments_data
GeometryVertices(geom) ==
    IF geom.polygons = <<>> THEN <<>>
    ELSE IF geom.multipart
         THEN ConcatAll([q \in DOMAIN geom.polygons |->
                             PolygonVertices(geom.polygons[q])])
         ELSE PolygonVertices(geom.polygons[1])

\* get_subcatchments_data: one dict for each subcatchment
GetSubcatchmentsData(found) ==
    IF SUBCATCHMENTS_LAYER_NAME \notin found THEN <<>>
    ELSE [i \in Fids(subcats) |->
             [ID |-> subcats[i].ID,
              RainGage |-> subcats[i].RainGage,
              Outlet |-> subcats[i].Outlet,
              Area |-> subcats[i].Area,
              PercImperv |-> subcats[i].PercImperv,
              Width |-> subcats[i].Width,
              Slope |-> subcats[i].Slope,
              vertices |-> GeometryVertices(subcats[i].geom)]]

-----------------------------------------------------------------------------
(* INP EXPORTER.  Numbers are in 1/10000 of their unit and not negative; a   *)
(* value of a dict is NULL (None), Some(v), or Text(s) for a string found    *)
(* where a number is expected.                                               *)

\* A string that float() does not accept
Text(s) == <<s, "str">>

IsNumber(value) == Len(value) = 1

\* dict.get(key, default)
Get(d, key, default) == IF key \in DOMAIN d THEN d[key] ELSE default

\* The outcome of a call: the value returned, or an exception raised
Returns(v) == [raises |-> FALSE, value |-> v]
Raises == [raises |-> TRUE, value |-> 0]

\* float(value): ValueError for a string that is no number
FloatOf(value) == IF IsNumber(value) THEN Returns(Val(value)) ELSE Raises

\* _safe_float without its try / except
SafeFloatUnguarded(value) ==
    IF IsNull(value) THEN Returns(0) ELSE FloatOf(value)

\* _safe_float
SafeFloat(value) ==
    IF IsNull(value) THEN Returns(0)
    ELSE IF FloatOf(value).raises THEN Returns(0) ELSE FloatOf(value)

\* _safe_str
SafeStr(value) == IF IsNull(value) THEN EmptyStr ELSE Strip(Val(value))

Spaces(n) == [k \in 1..n |-> Space]

\* f"{s:<w}"
PadRight(s, w) == IF Len(s) >= w THEN s ELSE s \o Spaces(w - Len(s))

\* f"{s:>w}"
PadLeft(s, w) == IF Len(s) >= w THEN s ELSE Spaces(w - Len(s)) \o s

Pow10(d) == <<1, 10, 100, 1000, 10000>>[d + 1]

\* The digits of n on at least d places
RECURSIVE Digits(_, _)
Digits(n, d) ==
    IF d <= 1 /\ n < 10 THEN <<Digit(n)>>
    ELSE Digits(n \div 10, d - 1) \o <<Digit(n % 10)>>

\* f"{v:.df}": v rounded to d decimals
Fixed(v, d) ==
    LET unit == Pow10(4 - d)
        q == (v + unit \div 2) \div unit
    IN  Str(q \div Pow10(d)) \o <<".">> \o Digits(q % Pow10(d), d)

\* f"{v:>w.df}"
FloatCell(v, w, d) == PadLeft(Fixed(v, d), w)

\* Cells joined by one blank each
RECURSIVE JoinUpTo(_, _)
JoinUpTo(cells, n) ==
    IF n = 1 THEN cells[1] ELSE JoinUpTo(cells, n - 1) \o <<Space>> \o cells[n]

JoinCells(cells) == JoinUpTo(cells, Len(cells))

Zero == <<"0">>

\* "0          0          0": zeros in columns of 10
ZeroColumns(n) == JoinCells([k \in 1..n |-> IF k < n THEN PadRight(Zero, 10) ELSE Zero])

\* A row and whether computing it raised
Row(cells, outcomes) ==
    [raises |-> \E k \in DOMAIN outcomes : outcomes[k].raises, line |-> JoinCells(cells)]

\* lines.append("[TITLE]")
Header(name) == <<name>>

\* lines.append(";;...")
Comment(text) == <<";", ";">> \o text

JunctionRow(node) ==
    LET name == SafeStr(Get(node, "ID", Some(<<"N", "O", "D", "E">>)))
        elev == SafeFloat(Get(node, "InvertElev", Some(0)))
        maxdepth == SafeFloat(Get(node, "MaxDepth", Some(10000)))
    IN  Row(<<PadRight(name, 15), FloatCell(elev.value, 10, 2),
              FloatCell(maxdepth.value, 10, 2), ZeroColumns(3)>>,
            <<elev, maxdepth>>)

ConduitRow(link) ==
    LET name == SafeStr(Get(link, "ID", Some(<<"L", "I", "N", "K">>)))
        node1 == SafeStr(Get(link, "InletNode", Some(EmptyStr)))
        node2 == SafeStr(Get(link, "OutletNode", Some(EmptyStr)))
        length == SafeFloat(Get(link, "Length", Some(1000000)))
        n == SafeFloat(Get(link, "ManningN", Some(90)))
        in_offset == SafeFloat(Get(link, "InOffset", Some(0)))
        out_offset == SafeFloat(Get(link, "OutOffset", Some(0)))
    IN  Row(<<PadRight(name, 15), PadRight(node1, 17), PadRight(node2, 17),
              FloatCell(length.value, 10, 2), FloatCell(n.value, 10, 3),
              FloatCell(in_offset.value, 10, 2), FloatCell(out_offset.value, 10, 2),
              ZeroColumns(2)>>,
            <<length, n, in_offset, out_offset>>)

XSectionRow(link) ==
    LET link_id == SafeStr(Get(link, "ID", Some(<<"L", "I", "N", "K">>)))
    IN  Row(<<PadRight(link_id, 15),
              PadRight(<<"C", "I", "R", "C", "U", "L", "A", "R">>, 12),
              PadRight(<<"1">>, 16), PadRight(ZeroColumns(3), 32), <<"1">>>>,
            <<>>)

SubcatchmentRow(subcat) ==
    LET name == SafeStr(Get(subcat, "ID", Some(<<"S", "U", "B">>)))
        rain_gage == SafeStr(Get(subcat, "RainGage", Some(EmptyStr)))
        outlet == SafeStr(Get(subcat, "Outlet", Some(EmptyStr)))
        area == SafeFloat(Get(subcat, "Area", Some(10000)))
        perc_imperv == SafeFloat(Get(subcat, "PercImperv", Some(0)))
        width == SafeFloat(Get(subcat, "Width", Some(500000)))
        slope == SafeFloat(Get(subcat, "Slope", Some(100)))
    IN  Row(<<PadRight(name, 15), PadRight(rain_gage, 17), PadRight(outlet, 17),
              FloatCell(area.value, 8, 2), FloatCell(perc_imperv.value, 8, 1),
              FloatCell(width.value, 8, 2), FloatCell(slope.value, 8, 2), Zero>>,
            <<area, perc_imperv, width, slope>>)

\* f"{name:<15} {x:>18.3f} {y:>18.3f}"
CoordRow(name, vx, vy) ==
    LET x == SafeFloat(vx)
        y == SafeFloat(vy)
    IN  Row(<<PadRight(name, 15), FloatCell(x.value, 18, 3), FloatCell(y.value, 18, 3)>>,
            <<x, y>>)

CoordinateRow(node) ==
    CoordRow(SafeStr(Get(node, "ID", Some(<<"N", "O", "D", "E">>))),
             Get(node, "X", Some(0)), Get(node, "Y", Some(0)))

\* The vertices without the last one when it repeats the first
OpenVertices(vertices) ==
    IF Len(vertices) > 1 /\ vertices[1] = vertices[Len(vertices)]
    THEN SubSeq(vertices, 1, Len(vertices) - 1)
    ELSE vertices

\* The vertices as they are
OpenVerticesKeepAll(vertices) == vertices

\* The [Polygons] rows of one subcatchment
PolygonRows(subcat) ==
    LET name == SafeStr(Get(subcat, "ID", Some(<<"S", "U", "B">>)))
        vertices == Get(subcat, "vertices", <<>>)
        kept == OpenVertices(vertices)
    IN  IF vertices = <<>> THEN <<>>
        ELSE [k \in DOMAIN kept |->
                 CoordRow(name, Get(kept[k], "x", Some(0)), Get(kept[k], "y", Some(0)))]

\* for node in nodes_data, in both sections of the nodes
JunctionRows(nodes_data) == [k \in DOMAIN nodes_data |-> JunctionRow(nodes_data[k])]

CoordinateRows(nodes_data) == [k \in DOMAIN nodes_data |-> CoordinateRow(nodes_data[k])]

\* for link in links_data, in both sections of the links
ConduitRows(links_data) == [k \in DOMAIN links_data |-> ConduitRow(links_data[k])]

XSectionRows(links_data) == [k \in DOMAIN links_data |-> XSectionRow(links_data[k])]

\* for subcat in subcatchments_data, in both sections of the subcatchments
SubcatchmentRows(subcatchments_data) ==
    [k \in DOMAIN subcatchments_data |-> SubcatchmentRow(subcatchments_data[k])]

AllPolygonRows(subcatchments_data) ==
    ConcatAll([k \in DOMAIN subcatchments_data |-> PolygonRows(subcatchments_data[k])])

\* Every row of the export, with its outcome
AllRows(nodes_data, links_data, subcatchments_data) ==
    JunctionRows(nodes_data) \o ConduitRows(links_data)
    \o XSectionRows(links_data) \o SubcatchmentRows(subcatchments_data)
    \o CoordinateRows(nodes_data)
    \o AllPolygonRows(subcatchments_data)

\* The rows without the last one
LinesOfButLast(rows) == [k \in 1..(Len(rows) - 1) |-> rows[k].line]

LinesOf(rows) == [k \in DOMAIN rows |-> rows[k].line]

\* A section: its header, its comment lines, its rows and a blank line
Section(name, comments, lines) ==
    <<Header(name)>> \o [k \in DOMAIN comments |-> Comment(comments[k])] \o lines
    \o <<EmptyStr>>

\* The section left out when it has no rows
DataSectionSkippedWhenEmpty(name, comments, lines) ==
    IF lines = <<>> THEN <<>> ELSE Section(name, comments, lines)

\* A section of the export with no rows still has its header
DataSection(name, comments, lines) == Section(name, comments, lines)

\* lines, as export_to_file builds it
ExportLines(title, nodes_data, links_data, subcatchments_data) ==
    Section("[TITLE]", <<title>>, <<>>)
    \o Section("[OPTIONS]", << <<"Option             Value">> >>,
               << <<"FLOW_UNITS           CMS">>, <<"INFILTRATION         GREEN_AMPT">>,
                  <<"FLOW_ROUTING         KINWAVE">>, <<"LINK_OFFSETS         DEPTH">>,
                  <<"MIN_SLOPE            0.0">>, <<"ALLOW_PONDING        NO">> >>)
    \o Section("[REPORT]", << <<"Reporting Options">> >>,
               << <<"SUBCATCHMENTS ALL">>, <<"NODES ALL">>, <<"LINKS ALL">> >>)
    \o DataSection("[JUNCTIONS]",
               << <<"Name           Elevation  MaxDepth   InitDepth  SurDepth   Aponded">>,
                  <<"-------------- ---------- ---------- ---------- ---------- ----------">> >>,
               LinesOf(JunctionRows(nodes_data)))
    \o DataSection("[CONDUITS]",
               << <<"Name           From Node        To Node          Length     Roughness  InOffset   OutOffset  InitFlow   MaxFlow">>,
                  <<"-------------- ---------------- ---------------- ---------- ---------- ---------- ---------- ---------- ----------">> >>,
               LinesOf(ConduitRows(links_data)))
    \o DataSection("[XSECTIONS]",
               << <<"Link           Shape        Geom1            Geom2      Geom3      Geom4      Barrels    Culvert">>,
                  <<"-------------- ------------ ---------------- ---------- ---------- ---------- ---------- ----------">> >>,
               LinesOf(XSectionRows(links_data)))
    \o DataSection("[SUBCATCHMENTS]",
               << <<"Name           Rain Gage        Outlet           Area     %Imperv  Width    %Slope   CurbLen  SnowPack">>,
                  <<"-------------- ---------------- ---------------- -------- -------- -------- -------- -------- --------">> >>,
               LinesOf(SubcatchmentRows(subcatchments_data)))
    \o DataSection("[COORDINATES]",
               << <<"Node           X-Coord            Y-Coord">>,
                  <<"-------------- ------------------ ------------------">> >>,
               LinesOf(CoordinateRows(nodes_data)))
    \o DataSection("[Polygons]",
               << <<"Subcatchment   X-Coord            Y-Coord">>,
                  <<"-------------- ------------------ ------------------">> >>,
               LinesOf(AllPolygonRows(subcatchments_data)))

\* The exception of a failed export let through
ExportResultUncaught(failed, n, l, s) ==
    IF failed THEN <<"Exception">>
    ELSE <<TRUE, <<"File exported successfully:", n, l, s>>>>

\* The pair export_to_file returns
ExportResult(failed, n, l, s) ==
    IF failed THEN <<FALSE, <<"Export failed:">>>>
    ELSE <<TRUE, <<"File exported successfully:", n, l, s>>>>

\* What open() and write() do at a file path
FilePaths == {"writable", "open fails", "write fails"}

ExportToFile(filepath, nodes_data, links_data, subcatchments_data) ==
    \E rows \in {AllRows(nodes_data, links_data, subcatchments_data)} :
    LET raised == \E k \in DOMAIN rows : rows[k].raises
        lines == ExportLines(exporter.project_title, nodes_data, links_data,
                             subcatchments_data)
    IN  /\ call' = [op |-> "export_to_file",
                    arg |-> [filepath |-> filepath, nodes_data |-> nodes_data,
                             links_data |-> links_data,
                             subcatchments_data |-> subcatchments_data]]
        /\ file' = IF raised \/ filepath = "open fails" THEN file
                   ELSE IF filepath = "write fails" THEN <<>>
                   ELSE lines
        /\ ret' = ExportResult(raised \/ filepath # "writable", Len(nodes_data),
                               Len(links_data), Len(subcatchments_data))
        /\ UNCHANGED <<nodes, links, subcats, project, core, nn, dem, exporter, prev, editing>>

SetTitle(title) ==
    /\ exporter' = [exporter EXCEPT !.project_title = title]
    /\ call' = [op |-> "set_title", arg |-> title]
    /\ ret' = EmptyDict
    /\ UNCHANGED <<nodes, links, subcats, project, core, nn, dem, file, prev, editing>>

\* Inputs of the export specification.
ExportNodeFeatures ==
    {[NodeFeature(PIn, Some(<<"N", "1">>)) EXCEPT
          !.InvertElev = Some(105000), !.MaxDepth = Some(10000),
          !.X = Some(12340), !.Y = Some(20010)],
     NodeFeature(PB, Some(<<Space, "N", "2", Space>>))}

\* Up to two nodes
ExportNodeLayers == SeqUpTo(ExportNodeFeatures, 2)

ExportLinkFeatures ==
    {[LinkFeature(<<PA, PB>>, Some(<<"L", "1">>)) EXCEPT
          !.InletNode = Some(<<"N", "1">>), !.OutletNode = Some(<<"N", "2">>),
          !.Length = Some(123456), !.ManningN = Some(130),
          !.InOffset = Some(0), !.OutOffset = Some(2500)],
     LinkFeature(<<PA, PB>>, NULL)}

\* At most one link
ExportLinkLayers == SeqUpTo(ExportLinkFeatures, 1)

PD == <<2000, 3000>>
PE == <<2000, 5000>>
PF == <<3000, 4000>>

\* The triangle with a triangular hole: two closed rings
WithHole == SinglePolygon(<< <<PA, PB, PC, PA>>, <<PD, PE, PF, PD>> >>)

\* A MultiPolygon of two triangles
TwoParts == PolygonGeometry(TRUE, << << <<PA, PB, PC, PA>> >>, << <<PD, PE, PF, PD>> >> >>)

\* A MultiPolygon of one triangle
OnePart == PolygonGeometry(TRUE, << << <<PA, PB, PC, PA>> >> >>)

EmptyGeometry == PolygonGeometry(FALSE, <<>>)

ExportSubcatFeatures ==
    {[SubcatFeature(Triangle, Some(<<"S", "1">>)) EXCEPT
          !.RainGage = Some(<<"R", "G">>), !.Outlet = Some(<<"N", "1">>),
          !.Area = Some(20000), !.PercImperv = Some(250000),
          !.Width = Some(301234), !.Slope = Some(5000)],
     SubcatFeature(OnePart, Some(<<"S", "1">>)),
     SubcatFeature(WithHole, Some(<<"S", "2">>)),
     SubcatFeature(TwoParts, NULL),
     SubcatFeature(EmptyGeometry, NULL)}

\* At most one subcatchment
ExportSubcatLayers == SeqUpTo(ExportSubcatFeatures, 1)

\* The project holds the three layers, or none of them.
ExportProjects == {LayerNames, {}}

\* The links and subcatchments that go together in the inputs
ExportLinkSubcatLayers ==
    {ls \in ExportLinkLayers \X ExportSubcatLayers : Len(ls[1]) = Len(ls[2])}

\* Records built by hand: keys left out, and values that are no numbers
SparseRecords ==
    [nodes_data |-> << [ID |-> Some(<<"N", "1">>)] >>,
     links_data |-> << [ID |-> Some(<<"L", "1">>)] >>,
     subcatchments_data |-> << [ID |-> Some(<<"S", "1">>)] >>]

InvalidRecords ==
    [nodes_data |->
         << [ID |-> Some(<<"N", "1">>), InvertElev |-> Text(<<"a", "b", "c">>),
             MaxDepth |-> NULL, X |-> Text(EmptyStr), Y |-> NULL] >>,
     links_data |->
         << [ID |-> Some(<<"L", "1">>), InletNode |-> NULL, OutletNode |-> Some(EmptyStr),
             Length |-> Text(<<"a", "b", "c">>), ManningN |-> Text(EmptyStr),
             InOffset |-> NULL, OutOffset |-> NULL] >>,
     subcatchments_data |->
         << [ID |-> NULL, Area |-> Text(<<"a", "b", "c">>), Width |-> Text(EmptyStr),
             Slope |-> Text(<<"a", "b", "c">>),
             vertices |-> <<Vertex(PA), Vertex(PB), Vertex(PC)>>],
            [ID |-> Some(<<"S", "2">>),
             vertices |-> <<Vertex(PA), Vertex(PB), Vertex(PC), Vertex(PA)>>] >>]

\* The records of the layers, as the dialog passes them
LayerRecords ==
    [nodes_data |-> GetNodesData(FindExistingLayers(core)),
     links_data |-> GetLinksData(FindExistingLayers(core)),
     subcatchments_data |-> GetSubcatchmentsData(FindExistingLayers(core))]

ExportInputs == {LayerRecords, SparseRecords, InvalidRecords}

Titles == {<<"M", "y", Space, "n", "e", "t">>}

InitExport ==
    /\ project \in ExportProjects
    /\ nodes \in (IF NODES_LAYER_NAME \in project THEN ExportNodeLayers ELSE {<<>>})
    /\ \E ls \in (IF LINKS_LAYER_NAME \in project
                  THEN ExportLinkSubcatLayers ELSE {<<<<>>, <<>>>>}) :
           links = ls[1] /\ subcats = ls[2]
    /\ core = FindExistingLayers({})
    /\ nn = NoIndex
    /\ dem = NoDem
    /\ exporter = NoExporter
    /\ file = NoFile
    /\ editing = {}
    /\ call = NoCall
    /\ ret = EmptyDict
    /\ prev = [nodes |-> nodes, links |-> links, subcats |-> subcats,
               call |-> NoCall, ret |-> EmptyDict]

NextExport ==
    \/ \E title \in Titles : SetTitle(title)
    \/ \E filepath \in FilePaths : \E data \in ExportInputs :
           ExportToFile(filepath, data.nodes_data, data.links_data,
                        data.subcatchments_data)

SpecExport == InitExport /\ [][NextExport]_vars

-----------------------------------------------------------------------------
(* ATTRIBUTE DERIVATION (LENGTH, AREA, SLOPE AND WIDTH)                    *)
(*                                                                         *)
(* Lengths and elevations are in 1/10000 m.  Areas are computed in cm2:    *)
(* the polygons of the model have their vertices on the centimetre grid    *)
(* and bounding boxes whose sides are multiples of 10 cm, so that the      *)
(* centres of the 5 x 5 sampling grid lie on the centimetre grid too.      *)
(* Stored values keep the convention of 1/10000 of their unit: an Area of  *)
(* 1/10000 ha is 1 m2, a Slope of 1/10000 %, a Width of 1/10000 m.         *)

\* The largest r in lo .. hi with r * r <= x
RECURSIVE SqrtBetween(_, _, _)
SqrtBetween(x, lo, hi) ==
    IF lo = hi THEN lo
    ELSE LET mid == (lo + hi + 1) \div 2
         IN  IF mid * mid <= x THEN SqrtBetween(x, mid, hi)
             ELSE SqrtBetween(x, lo, mid - 1)

\* math.sqrt(x), cut to a whole number
Isqrt(x) == SqrtBetween(x, 0, 46340)

RECURSIVE SumUpTo(_, _)
SumUpTo(values, n) == IF n = 0 THEN 0 ELSE SumUpTo(values, n - 1) + values[n]

Sum(values) == SumUpTo(values, Len(values))

Abs(v) == IF v < 0 THEN 0 - v ELSE v

Min(S) == CHOOSE v \in S : \A w \in S : v <= w

Max(S) == CHOOSE v \in S : \A w \in S : v >= w

\* round(a / b) for a >= 0 and b > 0.  No input of the model gives a
\* quotient half-way between two results.
RoundDiv(a, b) == (2 * a + b) \div (2 * b)

\* geometry().length() of a polyline, in 1/10000 m: the sum of the lengths
\* of its segments.  The segments of the model are 1 m or 0.6324555 m long.
GeometryLength(vertices) ==
    Sum([k \in 1..(Len(vertices) - 1) |->
             Isqrt(SqrDist(vertices[k], vertices[k + 1]))])

\* round(length, 3)
LinkLength(feat) == Round3(GeometryLength(feat.geom))

\* changeAttributeValue(feat.id(), length_idx, round(length, 3)) for every link
LengthsWritten(layer) ==
    [i \in Fids(layer) |-> ChangeAttributeValue(layer[i], "Length", Some(LinkLength(layer[i])))]

\* results[link_id] = round(length, 3), after the first n links
RECURSIVE LengthResults(_, _)
LengthResults(layer, n) ==
    IF n = 0 THEN EmptyDict
    ELSE DictPut(LengthResults(layer, n - 1), FeatureKey(layer, n), LinkLength(layer[n]))

AutoCalculateLinkLength ==
    LET found == FindExistingLayers(core)
    IN  /\ core' = found
        /\ call' = [op |-> "auto_calculate_link_length", arg |-> 0]
        /\ prev' = Snapshot
        /\ IF LINKS_LAYER_NAME \notin found
           THEN /\ ret' = EmptyDict
                /\ links' = links
                /\ editing' = editing
           ELSE /\ links' = LengthsWritten(links)
                /\ editing' = EditAndCommit(editing, LINKS_LAYER_NAME)
                /\ ret' = LengthResults(links, Len(links))
        /\ UNCHANGED <<nodes, subcats, project, nn, dem, exporter, file>>

\* A coordinate of 1/10000 m in cm
Cm(v) == v \div 100

CmPoint(p) == <<Cm(p[1]), Cm(p[2])>>

\* Twice the signed area of a ring, in cm2 (shoelace formula)
Shoelace(ring) ==
    Sum([k \in 1..(Len(ring) - 1) |->
             Cm(ring[k][1]) * Cm(ring[k + 1][2]) - Cm(ring[k + 1][1]) * Cm(ring[k][2])])

\* Twice the area of a polygon, in cm2: its outer ring less its holes
PolygonArea2(polygon) ==
    IF polygon = <<>> THEN 0
    ELSE Abs(Shoelace(polygon[1]))
         - Sum([k \in 1..(Len(polygon) - 1) |-> Abs(Shoelace(polygon[k + 1]))])

\* Twice geometry().area(), in cm2; an empty geometry has area 0
GeometryArea2(geom) ==
    Sum([k \in DOMAIN geom.polygons |-> PolygonArea2(geom.polygons[k])])

\* area_ha cut to 4 decimals instead of rounded
AreaHaTruncated(geom) == GeometryArea2(geom) \div 20000

\* area_ha = round(area_m2 / 10000.0, 4), in 1/10000 ha
AreaHa(geom) == RoundDiv(GeometryArea2(geom), 20000)

\* The loop with area_idx taken for the index of Width
AreasWrittenToWidth(layer) ==
    [i \in Fids(layer) |-> ChangeAttributeValue(layer[i], "Width", Some(AreaHa(layer[i].geom)))]

\* changeAttributeValue(feat.id(), area_idx, area_ha) for every subcatchment
AreasWritten(layer) ==
    [i \in Fids(layer) |-> ChangeAttributeValue(layer[i], "Area", Some(AreaHa(layer[i].geom)))]

\* results[sc_id] = area_ha, after the first n subcatchments
RECURSIVE AreaResults(_, _)
AreaResults(layer, n) ==
    IF n = 0 THEN EmptyDict
    ELSE DictPut(AreaResults(layer, n - 1), FeatureKey(layer, n), AreaHa(layer[n].geom))

AutoCalculateSubcatchmentArea ==
    LET found == FindExistingLayers(core)
    IN  /\ core' = found
        /\ call' = [op |-> "auto_calculate_subcatchment_area", arg |-> 0]
        /\ prev' = Snapshot
        /\ IF SUBCATCHMENTS_LAYER_NAME \notin found
           THEN /\ ret' = EmptyDict
                /\ subcats' = subcats
                /\ editing' = editing
           ELSE /\ subcats' = AreasWritten(subcats)
                /\ editing' = EditAndCommit(editing, SUBCATCHMENTS_LAYER_NAME)
                /\ ret' = AreaResults(subcats, Len(subcats))
        /\ UNCHANGED <<nodes, links, project, nn, dem, exporter, file>>

\* The points of all rings of a polygon geometry
GeometryPoints(geom) ==
    UNION {UNION {{geom.polygons[p][r][k] : k \in DOMAIN geom.polygons[p][r]} :
                      r \in DOMAIN geom.polygons[p]} : p \in DOMAIN geom.polygons}

\* geom.boundingBox(); the box of an empty geometry has no extent
BoundingBox(geom) ==
    LET pts == GeometryPoints(geom)
        xs == {p[1] : p \in pts}
        ys == {p[2] : p \in pts}
    IN  IF pts = {}
        THEN [xMinimum |-> 0, xMaximum |-> 0, yMinimum |-> 0, yMaximum |-> 0]
        ELSE [xMinimum |-> Min(xs), xMaximum |-> Max(xs),
              yMinimum |-> Min(ys), yMaximum |-> Max(ys)]

\* bbox.width()
BoxWidth(bbox) == bbox.xMaximum - bbox.xMinimum

\* bbox.height()
BoxHeight(bbox) == bbox.yMaximum - bbox.yMinimum

\* char_len = max(bbox.width(), bbox.height())
CharLen(bbox) == Max({BoxWidth(bbox), BoxHeight(bbox)})

\* The point p lies on the segment from a to b
OnSegment(a, b, p) ==
    /\ (b[1] - a[1]) * (p[2] - a[2]) = (p[1] - a[1]) * (b[2] - a[2])
    /\ Min({a[1], b[1]}) <= p[1] /\ p[1] <= Max({a[1], b[1]})
    /\ Min({a[2], b[2]}) <= p[2] /\ p[2] <= Max({a[2], b[2]})

\* The half-line from p towards larger x crosses the segment from a to b
Crosses(a, b, p) ==
    /\ (a[2] > p[2]) # (b[2] > p[2])
    /\ IF b[2] > a[2]
       THEN (p[1] - a[1]) * (b[2] - a[2]) < (p[2] - a[2]) * (b[1] - a[1])
       ELSE (p[1] - a[1]) * (b[2] - a[2]) > (p[2] - a[2]) * (b[1] - a[1])

OnRing(ring, p) ==
    \E k \in 1..(Len(ring) - 1) : OnSegment(CmPoint(ring[k]), CmPoint(ring[k + 1]), p)

\* p lies inside the ring or on it
CoveredByRing(ring, p) ==
    \/ OnRing(ring, p)
    \/ Cardinality({k \in 1..(Len(ring) - 1) :
                       Crosses(CmPoint(ring[k]), CmPoint(ring[k + 1]), p)}) % 2 = 1

\* p lies in the interior of the ring
InsideRing(ring, p) == CoveredByRing(ring, p) /\ ~OnRing(ring, p)

\* geom.contains(point): the point lies in the interior of the geometry, in
\* no hole and on no ring
Contains(geom, point) ==
    \E p \in DOMAIN geom.polygons :
        LET polygon == geom.polygons[p]
        IN  /\ polygon # <<>>
            /\ InsideRing(polygon[1], CmPoint(point))
            /\ \A r \in 2..Len(polygon) : ~CoveredByRing(polygon[r], CmPoint(point))

\* cols = rows = int(math.sqrt(samples)); the cells (i, j) of the grid
GridCells(samples) == (0..(Isqrt(samples) - 1)) \X (0..(Isqrt(samples) - 1))

\* (bbox.xMinimum() + dx * (i + 0.5), bbox.yMinimum() + dy * (j + 0.5))
CellCentre(bbox, samples, cell) ==
    <<bbox.xMinimum + (BoxWidth(bbox) * (2 * cell[1] + 1)) \div (2 * Isqrt(samples)),
      bbox.yMinimum + (BoxHeight(bbox) * (2 * cell[2] + 1)) \div (2 * Isqrt(samples))>>

\* _sample_elevations_in_polygon: the cells whose centre gave an elevation
SampleElevationsInPolygon(geom, bbox, provider, samples) ==
    {cell \in GridCells(samples) :
        LET pt == CellCentre(bbox, samples, cell)
        IN  /\ Contains(geom, pt)
            /\ SampleValid(provider.sample[pt][1], provider.sample[pt][2])}

\* The elevations appended for these cells
Elevations(bbox, provider, samples, cells) ==
    {Val(provider.sample[CellCentre(bbox, samples, cell)][1]) : cell \in cells}

\* The fallback slope, 0.5 %
FallbackSlope == 5000

\* slope_pct with len(elevations) >= 1 as the test
SlopePctFromOneSample(cells, elevations, char_len) ==
    IF Cardinality(cells) >= 1
    THEN IF char_len > 0
         THEN RoundDiv(100 * (Max(elevations) - Min(elevations)), Cm(char_len)) * 100
         ELSE FallbackSlope
    ELSE FallbackSlope

\* slope_pct, in 1/10000 %: round((elev_range / char_len) * 100.0, 2)
SlopePct(cells, elevations, char_len) ==
    IF Cardinality(cells) >= 2
    THEN IF char_len > 0
         THEN RoundDiv(100 * (Max(elevations) - Min(elevations)), Cm(char_len)) * 100
         ELSE FallbackSlope
    ELSE FallbackSlope

\* width of a box without extent: a constant in place of the square root
WidthOfNoSqrt(area2, char_len) ==
    IF char_len > 0 THEN RoundDiv(area2, 2 * Cm(char_len)) * 100 ELSE 10000

\* width, in 1/10000 m: round(area_m2 / char_len, 2), or
\* round(math.sqrt(area_m2), 2) for a box without extent
WidthOf(area2, char_len) ==
    IF char_len > 0 THEN RoundDiv(area2, 2 * Cm(char_len)) * 100
    ELSE ((Isqrt(2 * area2) + 1) \div 2) * 100

\* The slope and width computed for one subcatchment
SlopeAndWidth(feat, provider) ==
    LET bbox == BoundingBox(feat.geom)
        cells == SampleElevationsInPolygon(feat.geom, bbox, provider, 25)
    IN  [slope |-> SlopePct(cells, Elevations(bbox, provider, 25, cells), CharLen(bbox)),
         width |-> WidthOf(GeometryArea2(feat.geom), CharLen(bbox))]

\* results[sc_id] = {'slope': slope_pct, 'width': width}, after the first n
\* subcatchments
RECURSIVE SlopeWidthResults(_, _, _)
SlopeWidthResults(layer, computed, n) ==
    IF n = 0 THEN EmptyDict
    ELSE DictPut(SlopeWidthResults(layer, computed, n - 1), FeatureKey(layer, n),
                 computed[n])

\* dem_layer is NULL (None) or Some(layer)
AutoCalculateSubcatchmentSlopeAndWidth(dem_layer) ==
    LET found == FindExistingLayers(core)
    IN  /\ core' = found
        /\ call' = [op |-> "auto_calculate_subcatchment_slope_and_width",
                    arg |-> dem_layer]
        /\ prev' = Snapshot
        /\ IF SUBCATCHMENTS_LAYER_NAME \notin found \/ IsNull(dem_layer)
           THEN /\ ret' = EmptyDict
                /\ subcats' = subcats
                /\ editing' = editing
           ELSE \E computed \in {[i \in Fids(subcats) |->
                                     SlopeAndWidth(subcats[i], Val(dem_layer))]} :
                /\ subcats' =
                     [i \in Fids(subcats) |->
                         ChangeAttributeValue(
                             ChangeAttributeValue(subcats[i], "Slope",
                                                  Some(computed[i].slope)),
                             "Width", Some(computed[i].width))]
                /\ editing' = EditAndCommit(editing, SUBCATCHMENTS_LAYER_NAME)
                /\ ret' = SlopeWidthResults(subcats, computed, Len(subcats))
        /\ UNCHANGED <<nodes, links, project, nn, dem, exporter, file>>

\* Inputs of the derivation specification, in 1/10000 m.
\* A rectangle of 100 m by 200 m
Rect100x200 ==
    SinglePolygon(<< <<PA, <<1000000, 0>>, <<1000000, 2000000>>, <<0, 2000000>>, PA>> >>)

\* The same with a hole from (20 m, 20 m) to (80 m, 100 m): grid centres lie
\* in the hole and on its border
RectWithHole ==
    SinglePolygon(<< <<PA, <<1000000, 0>>, <<1000000, 2000000>>, <<0, 2000000>>, PA>>,
                     <<<<200000, 200000>>, <<200000, 1000000>>, <<800000, 1000000>>,
                       <<800000, 200000>>, <<200000, 200000>>>> >>)

\* A right triangle with legs of 100 m: grid centres lie on its long side
RightTriangle == SinglePolygon(<< <<PA, <<1000000, 0>>, <<0, 1000000>>, PA>> >>)

\* A rectangle of 12.3 m by 4.6 m, 56.58 m2
SmallRect ==
    SinglePolygon(<< <<PA, <<123000, 0>>, <<123000, 46000>>, <<0, 46000>>, PA>> >>)

\* A ring that stays at one point, (5 m, 5 m): a bounding box without extent
PointPolygon ==
    SinglePolygon(<< <<<<50000, 50000>>, <<50000, 50000>>, <<50000, 50000>>,
                       <<50000, 50000>>>> >>)

\* A ring that runs 10 m along the x axis and back: no area
FlatPolygon == SinglePolygon(<< <<PA, <<100000, 0>>, PA>> >>)

CalcGeoms ==
    {Rect100x200, RectWithHole, RightTriangle, SmallRect, PointPolygon, FlatPolygon,
     EmptyGeometry}

CalcSubcatFeatures ==
    {SubcatFeature(g, id) : g \in CalcGeoms, id \in {NULL, Some(<<"S", "1">>)}}

\* No subcatchment, one, or two of which the second is the small rectangle
CalcSubcatLayers ==
    SeqUpTo(CalcSubcatFeatures, 1)
        \cup {<<f, SubcatFeature(SmallRect, id)>> :
                 f \in CalcSubcatFeatures, id \in {NULL, Some(<<"S", "1">>)}}

\* Link IDs: NULL, 'L1', and '1', which is also str(feat.id()) of the first link
CalcLinkLayers ==
    SeqUpTo({LinkFeature(g, id) : g \in {<<>>, <<PA, PB>>, <<PA, PC, PB>>},
                                  id \in {NULL, Some(<<"L", "1">>), Some(<<"1">>)}}, 2)

\* The centres of the sampling grids of these polygons
CalcCentres ==
    UNION {{CellCentre(BoundingBox(g), 25, cell) : cell \in GridCells(25)} : g \in CalcGeoms}

\* An elevation that differs from centre to centre: 0.1 m per metre of x
\* and 0.01 m per metre of y
Ramp(p) == Some(p[1] \div 10 + p[2] \div 100)

\* What provider.sample answers at the centres: 5 m everywhere, the ramp,
\* no value, the ramp with ok false, and the ramp at the first cell of each
\* grid only
CalcSamples ==
    {[p \in CalcCentres |-> <<Some(50000), TRUE>>],
     [p \in CalcCentres |-> <<Ramp(p), TRUE>>],
     [p \in CalcCentres |-> <<NULL, TRUE>>],
     [p \in CalcCentres |-> <<Ramp(p), FALSE>>],
     [p \in CalcCentres |->
         IF \E g \in CalcGeoms : p = CellCentre(BoundingBox(g), 25, <<0, 0>>)
         THEN <<Ramp(p), TRUE>> ELSE <<NULL, FALSE>>]}

CalcDems ==
    {[xMinimum |-> 0, xMaximum |-> 1000000, yMinimum |-> 0, yMaximum |-> 2000000,
      sample |-> f] : f \in CalcSamples}

\* The raster that answers 5 m everywhere
FlatDem == CHOOSE d \in CalcDems : \A p \in CalcCentres : d.sample[p] = <<Some(50000), TRUE>>

\* The project holds all three layers, or lacks the links or the
\* subcatchments layer.
CalcProjects ==
    {LayerNames, LayerNames \ {LINKS_LAYER_NAME}, LayerNames \ {SUBCATCHMENTS_LAYER_NAME}}

\* In a project of all three layers: the link layers with no subcatchment
\* and the flat raster, and the subcatchment layers with one link and each
\* of the rasters.  In a project that lacks a layer: one link or one
\* subcatchment in the layer that is there.
CalcLayers ==
    {[project |-> LayerNames, links |-> l, subcats |-> <<>>, dem |-> FlatDem] :
        l \in CalcLinkLayers}
        \cup {[project |-> LayerNames, links |-> <<LinkFeature(<<PA, PB>>, NULL)>>,
                subcats |-> s, dem |-> d] : s \in CalcSubcatLayers, d \in CalcDems}
        \cup {[project |-> p,
                links |-> IF LINKS_LAYER_NAME \in p
                          THEN <<LinkFeature(<<PA, PB>>, NULL)>> ELSE <<>>,
                subcats |-> IF SUBCATCHMENTS_LAYER_NAME \in p
                            THEN <<SubcatFeature(SmallRect, NULL)>> ELSE <<>>,
                dem |-> FlatDem] : p \in CalcProjects}

InitCalc ==
    /\ nodes = <<>>
    /\ \E ls \in CalcLayers :
           /\ project = ls.project
           /\ links = ls.links
           /\ subcats = ls.subcats
           /\ dem = ls.dem
    /\ core = FindExistingLayers({})
    /\ nn = NoIndex
    /\ exporter = NoExporter
    /\ file = NoFile
    /\ editing = {}
    /\ call = NoCall
    /\ ret = EmptyDict
    /\ prev = [nodes |-> nodes, links |-> links, subcats |-> subcats,
               call |-> NoCall, ret |-> EmptyDict]

NextCalc ==
    \/ AutoCalculateLinkLength
    \/ AutoCalculateSubcatchmentArea
    \/ \E dem_layer \in {NULL, Some(dem)} :
           AutoCalculateSubcatchmentSlopeAndWidth(dem_layer)

SpecCalc == InitCalc /\ [][NextCalc]_vars

-----------------------------------------------------------------------------
(* THE CORE AS THE DIALOG DRIVES IT                                        *)
(*                                                                         *)
(* One SWMMCore lives as long as the dialog (swmm_dialog.py:27); the user  *)
(* runs its operations in any order (SpecCore) and may remove a layer from *)
(* the project in between (SpecRemoval).                                   *)

MaxRemoved == 1     \* layers removed from the project in one behaviour

\* QgsProject.removeMapLayer: mapLayers() no longer holds the layer; the
\* handles of the core are left as they are.
RemoveLayer(name) ==
    /\ name \in project
    /\ Cardinality(core \ project) < MaxRemoved
    /\ project' = project \ {name}
    /\ call' = [op |-> "removeMapLayer", arg |-> name]
    /\ UNCHANGED <<nodes, links, subcats, core, nn, dem, ret, prev, exporter, file, editing>>

\* The handles of layers that are no longer in the project.  A call on such
\* a handle works on the layer if it is still alive, and raises RuntimeError
\* if it was deleted with the project's reference.
Dangling(found) == found \ project

\* The layers an operation calls methods of once it is past its early return
LayersUsed(op, found) ==
    CASE op = "sync_elevations_from_dem" ->
             IF NODES_LAYER_NAME \in found THEN {NODES_LAYER_NAME} ELSE {}
      [] op = "auto_snap_links_to_nodes" ->
             IF LINKS_LAYER_NAME \in found /\ NODES_LAYER_NAME \in found
             THEN {NODES_LAYER_NAME, LINKS_LAYER_NAME} ELSE {}
      [] op = "auto_calculate_link_length" ->
             IF LINKS_LAYER_NAME \in found THEN {LINKS_LAYER_NAME} ELSE {}
      [] op \in {"auto_calculate_subcatchment_area",
                 "auto_calculate_subcatchment_slope_and_width"} ->
             IF SUBCATCHMENTS_LAYER_NAME \in found THEN {SUBCATCHMENTS_LAYER_NAME} ELSE {}
      [] OTHER -> found

\* The operation raises at its first call on a deleted layer, before it
\* begins to edit that layer: nothing is changed and nothing returned.
RaisesRuntimeError(op, arg) ==
    LET found == FindExistingLayers(core)
    IN  /\ LayersUsed(op, found) \cap Dangling(found) # {}
        /\ core' = found
        /\ call' = [op |-> op, arg |-> arg, raises |-> "RuntimeError"]
        /\ prev' = Snapshot
        /\ UNCHANGED <<nodes, links, subcats, project, nn, dem, ret, exporter, file,
                       editing>>

\* generate_auto_ids raises in _fill_ids of the first deleted layer; the
\* layers before it have their IDs filled and committed.
GenerateAutoIdsRaises ==
    LET found == FindExistingLayers(core)
        dead == Dangling(found)
        n == FillIds(NODES_LAYER_NAME \in found, nodes, <<"N">>)
        l == FillIds(LINKS_LAYER_NAME \in found, links, <<"L">>)
    IN  /\ dead # {}
        /\ core' = found
        /\ call' = [op |-> "generate_auto_ids", arg |-> 0, raises |-> "RuntimeError"]
        /\ prev' = Snapshot
        /\ nodes' = IF NODES_LAYER_NAME \in dead THEN nodes ELSE n.layer
        /\ links' = IF {NODES_LAYER_NAME, LINKS_LAYER_NAME} \cap dead # {}
                    THEN links ELSE l.layer
        /\ editing' =
             IF NODES_LAYER_NAME \in dead THEN editing
             ELSE IF LINKS_LAYER_NAME \in dead
                  THEN FillIdsSessions(NODES_LAYER_NAME \in found, editing,
                                       NODES_LAYER_NAME)
                  ELSE FillIdsSessions(LINKS_LAYER_NAME \in found,
                           FillIdsSessions(NODES_LAYER_NAME \in found, editing,
                                           NODES_LAYER_NAME),
                           LINKS_LAYER_NAME)
        /\ UNCHANGED <<subcats, project, nn, dem, ret, exporter, file>>

\* on_export_inp of the dialog: the three get_*_data calls, set_title and
\* export_to_file
OnExportInp(filepath, title) ==
    \E found \in {FindExistingLayers(core)} :
    \E n \in {GetNodesData(found)} :
    \E l \in {GetLinksData(found)} :
    \E s \in {GetSubcatchmentsData(found)} :
    \E rows \in {AllRows(n, l, s)} :
        LET raised == \E k \in DOMAIN rows : rows[k].raises
        IN  /\ core' = found
            /\ exporter' = [exporter EXCEPT !.project_title = title]
            /\ call' = [op |-> "on_export_inp",
                        arg |-> [filepath |-> filepath, nodes_data |-> n,
                                 links_data |-> l, subcatchments_data |-> s]]
            /\ prev' = Snapshot
            /\ file' = IF raised \/ filepath = "open fails" THEN file
                       ELSE IF filepath = "write fails" THEN <<>>
                       ELSE ExportLines(title, n, l, s)
            /\ ret' = ExportResult(raised \/ filepath # "writable", Len(n), Len(l), Len(s))
            /\ UNCHANGED <<nodes, links, subcats, project, nn, dem, editing>>

\* The raster answers 5 m at PA and the ramp at the grid centres of the
\* small rectangle.
CoreDem ==
    [xMinimum |-> 0, xMaximum |-> 1000000, yMinimum |-> 0, yMaximum |-> 2000000,
     sample |-> [p \in {PA} \cup {CellCentre(BoundingBox(SmallRect), 25, cell) :
                                     cell \in GridCells(25)} |->
                    IF p = PA THEN <<Some(50000), TRUE>> ELSE <<Ramp(p), TRUE>>]]

\* Inputs of this specification.  Either the node N1 at PA and a link
\* without ID from PA to PB, or one subcatchment without ID, the small
\* rectangle.  The project holds all three layers or lacks one of them.
CoreLayers ==
    {[nodes |-> <<NodeFeature(PA, Some(<<"N", "1">>))>>,
      links |-> <<LinkFeature(<<PA, PB>>, NULL)>>, subcats |-> <<>>],
     [nodes |-> <<>>, links |-> <<>>, subcats |-> <<SubcatFeature(SmallRect, NULL)>>]}

CoreProjects == {LayerNames} \cup {LayerNames \ {name} : name \in LayerNames}

\* The user has no edit session open, or one on the links layer
CoreSessions == {{}, {LINKS_LAYER_NAME}}

InitCore ==
    /\ project \in CoreProjects
    /\ \E ls \in CoreLayers :
           /\ nodes = (IF NODES_LAYER_NAME \in project THEN ls.nodes ELSE <<>>)
           /\ links = (IF LINKS_LAYER_NAME \in project THEN ls.links ELSE <<>>)
           /\ subcats = (IF SUBCATCHMENTS_LAYER_NAME \in project THEN ls.subcats ELSE <<>>)
    /\ core = FindExistingLayers({})
    /\ nn \in IndexAnswers(nodes)
    /\ dem = CoreDem
    /\ exporter = NoExporter
    /\ file = NoFile
    /\ editing \in {e \in CoreSessions : e \subseteq project}
    /\ call = NoCall
    /\ ret = EmptyDict
    /\ prev = [nodes |-> nodes, links |-> links, subcats |-> subcats,
               call |-> NoCall, ret |-> EmptyDict]

\* The operations of the core that change or check the layers
CoreOperation ==
    \/ GenerateAutoIds
    \/ SyncElevationsFromDem(dem)
    \/ AutoSnapLinksToNodes(10000)
    \/ AutoCalculateLinkLength
    \/ AutoCalculateSubcatchmentArea
    \/ \E dem_layer \in {NULL, Some(dem)} :
           AutoCalculateSubcatchmentSlopeAndWidth(dem_layer)
    \/ ValidateLayerCompleteness

NextCore ==
    \/ CoreOperation
    \/ \E title \in Titles : OnExportInp("writable", title)

SpecCore == InitCore /\ [][NextCore]_vars

\* The same operations on a project that holds all three layers at first,
\* of which the user, who edits none, removes one.
InitRemoval == InitCore /\ project = LayerNames /\ editing = {}

NextRemoval ==
    \/ CoreOperation
    \/ \E name \in LayerNames : RemoveLayer(name)
    \/ GenerateAutoIdsRaises
    \/ RaisesRuntimeError("sync_elevations_from_dem", 0)
    \/ RaisesRuntimeError("auto_snap_links_to_nodes", 10000)
    \/ RaisesRuntimeError("auto_calculate_link_length", 0)
    \/ RaisesRuntimeError("auto_calculate_subcatchment_area", 0)
    \/ RaisesRuntimeError("auto_calculate_subcatchment_slope_and_width", Some(dem))
    \/ RaisesRuntimeError("validate_layer_completeness", 0)

SpecRemoval == InitRemoval /\ [][NextRemoval]_vars

-----------------------------------------------------------------------------
(* Claims about link topology, checked under SpecSnap.                     *)

SnapCall == "auto_snap_links_to_nodes"

\* The last operation was a topology run that found both layers.
SnapRan ==
    /\ call.op = SnapCall
    /\ NODES_LAYER_NAME \in core
    /\ LINKS_LAYER_NAME \in core

\* r is what an endpoint at point p may resolve to under tolerance d: the ID of
\* a node no other node is nearer to p than, if that node lies within d of p
\* (boundary included) and has an ID, and '' otherwise.
MayResolveTo(r, p, d) ==
    IF nodes = <<>> THEN r = EmptyStr
    ELSE \E n \in Fids(nodes) :
            /\ \A m \in Fids(nodes) :
                   SqrDist(nodes[n].geom, p) <= SqrDist(nodes[m].geom, p)
            /\ r = (IF SqrDist(nodes[n].geom, p) <= d * d
                       /\ nodes[n].ID \notin {NULL, Some(EmptyStr)}
                    THEN nodes[n].ID[1] ELSE EmptyStr)

\* What the endpoints of link i resolve to on a run with tolerance d
InletResolved(i, d) == FindNearestNode(links[i].geom[1], d)
OutletResolved(i, d) == FindNearestNode(links[i].geom[Len(links[i].geom)], d)

C2_EndpointsWrittenOrEmpty ==
    SnapRan =>
        \A i \in Fids(links) :
            Len(links[i].geom) >= 2 =>
                /\ links[i].InletNode = Some(InletResolved(i, call.arg))
                /\ links[i].OutletNode = Some(OutletResolved(i, call.arg))

\* C3: every endpoint resolves to the ID of its nearest node exactly when that
\* node lies within the tolerance, boundary included, and to '' otherwise; so
\* the references written and returned are IDs of nodes within the tolerance.
C3_NearestWithinTolerance ==
    SnapRan =>
        /\ \A i \in Fids(links) :
               Len(links[i].geom) >= 2 =>
                   LET g == links[i].geom
                       a == links[i].InletNode
                       b == links[i].OutletNode
                   IN  \/ /\ a # NULL /\ b # NULL
                          /\ a[1] # EmptyStr \/ b[1] # EmptyStr
                          /\ MayResolveTo(a[1], g[1], call.arg)
                          /\ MayResolveTo(b[1], g[Len(g)], call.arg)
                       \/ /\ links[i] = prev.links[i]
                          /\ MayResolveTo(EmptyStr, g[1], call.arg)
                          /\ MayResolveTo(EmptyStr, g[Len(g)], call.arg)
        /\ \A k \in DOMAIN ret :
               \E i \in Fids(links) :
                   /\ FeatureKey(links, i) = k
                   /\ Len(links[i].geom) >= 2
                   /\ MayResolveTo(ret[k][1], links[i].geom[1], call.arg)
                   /\ MayResolveTo(ret[k][2], links[i].geom[Len(links[i].geom)], call.arg)

\* A run with a tolerance of 1 m in which an inlet resolved to a node lying
\* exactly 1 m from the link's first vertex.
C3_Witness ==
    /\ SnapRan /\ call.arg > 0
    /\ \E i \in Fids(links) :
           /\ Len(links[i].geom) >= 2
           /\ links[i].InletNode \notin {NULL, Some(EmptyStr)}
           /\ \A n \in Fids(nodes) :
                  SqrDist(nodes[n].geom, links[i].geom[1]) = call.arg * call.arg
           /\ FeatureKey(links, i) \in DOMAIN ret

\* Link i starts exactly at node a and ends exactly at node b, two nodes with
\* IDs, each farther than d from every other node.
EndsAtIsolatedNodes(i, a, b, d) ==
    /\ Len(links[i].geom) >= 2
    /\ a # b
    /\ nodes[a].geom = links[i].geom[1]
    /\ nodes[b].geom = links[i].geom[Len(links[i].geom)]
    /\ nodes[a].ID \notin {NULL, Some(EmptyStr)}
    /\ nodes[b].ID \notin {NULL, Some(EmptyStr)}
    /\ \A m \in Fids(nodes) \ {a} : SqrDist(nodes[m].geom, nodes[a].geom) > d * d
    /\ \A m \in Fids(nodes) \ {b} : SqrDist(nodes[m].geom, nodes[b].geom) > d * d

\* C4: a link whose first and last vertices coincide with two nodes, each
\* farther than the tolerance from every other node, gets exactly those two
\* nodes' IDs as inlet and outlet, written to the link and returned under its
\* link_id, for every tolerance from 0 up.
C4_ExactNodesAtEndpoints ==
    SnapRan =>
        \A i \in Fids(links) : \A a \in Fids(nodes) : \A b \in Fids(nodes) :
            EndsAtIsolatedNodes(i, a, b, call.arg) =>
                /\ links[i].InletNode = nodes[a].ID
                /\ links[i].OutletNode = nodes[b].ID
                /\ FeatureKey(links, i) \in DOMAIN ret
                /\ (\A j \in Fids(links) \ {i} : FeatureKey(links, j) # FeatureKey(links, i))
                       => ret[FeatureKey(links, i)] = <<nodes[a].ID[1], nodes[b].ID[1]>>

\* A run with tolerance 0 over such a link, which has a link_id of its own.
C4_Witness ==
    /\ SnapRan /\ call.arg = 0
    /\ \E i \in Fids(links) : \E a \in Fids(nodes) : \E b \in Fids(nodes) :
           /\ EndsAtIsolatedNodes(i, a, b, 0)
           /\ \A j \in Fids(links) \ {i} : FeatureKey(links, j) # FeatureKey(links, i)
           /\ ret[FeatureKey(links, i)] = <<nodes[a].ID[1], nodes[b].ID[1]>>

\* The links with at least 2 vertices of which an endpoint resolved on a run
\* with tolerance d
ResolvedLinks(d) ==
    {i \in Fids(links) :
        /\ Len(links[i].geom) >= 2
        /\ InletResolved(i, d) # EmptyStr \/ OutletResolved(i, d) # EmptyStr}

\* C5: the returned mapping has an entry under a link_id exactly for the links
\* with at least 2 vertices of which at least one endpoint resolved; a link
\* with fewer than 2 vertices adds no entry and keeps its attributes.
C5_EntriesForResolvedLinks ==
    SnapRan =>
        /\ DOMAIN ret = {FeatureKey(links, i) : i \in ResolvedLinks(call.arg)}
        /\ \A i \in Fids(links) : Len(links[i].geom) < 2 => links[i] = prev.links[i]

\* A run over a link with fewer than 2 vertices, a link of which no endpoint
\* resolved, or both, next to a link that resolved and has the only entry.
C5_Witness ==
    /\ SnapRan
    /\ \E i \in Fids(links) : \E j \in Fids(links) :
           /\ j \in ResolvedLinks(call.arg)
           /\ i \notin ResolvedLinks(call.arg)
           /\ FeatureKey(links, i) # FeatureKey(links, j)
           /\ DOMAIN ret = {FeatureKey(links, j)}

-----------------------------------------------------------------------------
(* Claims about ID generation, checked under SpecIds.                      *)

IdsCall == "generate_auto_ids"

IdsRan == call.op = IdsCall

\* The layers generate_auto_ids went through, each with its features before
\* and after the call, its prefix and the count returned for it.
IdPasses ==
    {[old |-> prev.nodes, new |-> nodes, prefix |-> <<"N">>, count |-> ret.nodes,
      found |-> NODES_LAYER_NAME \in core],
     [old |-> prev.links, new |-> links, prefix |-> <<"L">>, count |-> ret.links,
      found |-> LINKS_LAYER_NAME \in core],
     [old |-> prev.subcats, new |-> subcats, prefix |-> <<"S">>,
      count |-> ret.subcatchments, found |-> SUBCATCHMENTS_LAYER_NAME \in core]}

\* A blank identifier: NULL, empty, or made of spaces only.
BlankId(a) == a = NULL \/ \A k \in 1..Len(a[1]) : a[1][k] = " "

\* The string s without its leading and trailing spaces.
TrimOf(s) ==
    LET inner == {k \in 1..Len(s) : s[k] # " "}
    IN  IF inner = {} THEN <<>>
        ELSE LET lo == CHOOSE k \in inner : \A m \in inner : k <= m
                 hi == CHOOSE k \in inner : \A m \in inner : k >= m
             IN  [k \in 1..(hi - lo + 1) |-> s[lo + k - 1]]

\* The trimmed non-blank identifiers of a layer
TrimmedIds(layer) ==
    {TrimOf(layer[j].ID[1]) : j \in {k \in Fids(layer) : ~BlankId(layer[k].ID)}}

\* The features whose ID the call assigned
GeneratedFids(pass) == {i \in Fids(pass.old) : pass.new[i].ID # pass.old[i].ID}

\* C6: within one pass over a layer, every generated ID differs from every
\* trimmed non-blank ID the layer held before, and no generated ID is given
\* to two features.
C6_GeneratedIdsUnique ==
    IdsRan =>
        \A pass \in IdPasses :
            \A i \in GeneratedFids(pass) :
                /\ pass.new[i].ID # NULL
                /\ pass.new[i].ID[1] \notin TrimmedIds(pass.old)
                /\ \A j \in GeneratedFids(pass) \ {i} : pass.new[j].ID # pass.new[i].ID

\* A pass that generated two IDs in a layer holding ' N1 '.
C6_Witness ==
    /\ IdsRan
    /\ Cardinality(GeneratedFids(CHOOSE pass \in IdPasses : pass.prefix = <<"N">>)) >= 2
    /\ \E j \in Fids(prev.nodes) : prev.nodes[j].ID = Some(<<" ", "N", "1", " ">>)

\* The least n >= 1 for which prefix+n is not in used
LeastFree(used, prefix) ==
    CHOOSE n \in 1..(Cardinality(used) + 1) :
        /\ (prefix \o Str(n)) \notin used
        /\ \A m \in 1..(n - 1) : (prefix \o Str(m)) \in used

\* C7: each feature with a blank identifier, in iteration order, gets
\* prefix+n for the least n >= 1 such that prefix+n is neither a trimmed ID the
\* layer held before nor an ID generated earlier in the pass; the count
\* returned is the number of features that were blank.
C7_LowestFreeNumber ==
    IdsRan =>
        \A pass \in IdPasses :
            IF pass.found
            THEN /\ \A i \in Fids(pass.old) :
                        BlankId(pass.old[i].ID) =>
                            LET earlier == {pass.new[j].ID[1] :
                                              j \in {k \in 1..(i - 1) : BlankId(pass.old[k].ID)}}
                                used == TrimmedIds(pass.old) \cup earlier
                            IN  pass.new[i].ID = <<pass.prefix \o Str(LeastFree(used, pass.prefix))>>
                 /\ pass.count = Cardinality({i \in Fids(pass.old) : BlankId(pass.old[i].ID)})
            ELSE pass.count = 0

\* A pass over nodes holding 'N2' that gave one blank feature 'N1' and a later
\* one 'N3'.
C7_Witness ==
    /\ IdsRan
    /\ ret.nodes = 2
    /\ \E i \in Fids(nodes) : \E j \in Fids(nodes) : \E k \in Fids(nodes) :
           /\ prev.nodes[k].ID = Some(<<"N", "2">>)
           /\ i < j
           /\ BlankId(prev.nodes[i].ID) /\ nodes[i].ID = Some(<<"N", "1">>)
           /\ BlankId(prev.nodes[j].ID) /\ nodes[j].ID = Some(<<"N", "3">>)

\* C8: generate_auto_ids never changes an identifier that is not blank, and a
\* call that follows another call generates nothing: it returns 0 for every
\* layer and changes no attribute.
C8_IdsIdempotent ==
    IdsRan =>
        /\ \A pass \in IdPasses :
               \A i \in Fids(pass.old) :
                   ~BlankId(pass.old[i].ID) => pass.new[i] = pass.old[i]
        /\ prev.call.op = IdsCall =>
               /\ ret = [nodes |-> 0, links |-> 0, subcatchments |-> 0]
               /\ nodes = prev.nodes /\ links = prev.links /\ subcats = prev.subcats

\* A second call, after a first one that generated an ID for a node next to a
\* node that kept its own.
C8_Witness ==
    /\ IdsRan /\ prev.call.op = IdsCall
    /\ prev.ret.nodes >= 1
    /\ \E i \in Fids(nodes) : nodes[i].ID = Some(<<" ", "N", "1", " ">>)

-----------------------------------------------------------------------------
(* Claims about elevation synchronization, checked under SpecElev.         *)

SyncCall == "sync_elevations_from_dem"

\* The last operation was an elevation run that found the nodes layer.
SyncRan == call.op = SyncCall /\ NODES_LAYER_NAME \in core

\* Node i lies within the raster extent and the oracle gave a value for it.
HasElevation(i) ==
    LET p == nodes[i].geom
    IN  /\ dem.xMinimum <= p[1] /\ p[1] <= dem.xMaximum
        /\ dem.yMinimum <= p[2] /\ p[2] <= dem.yMaximum
        /\ dem.sample[p][2] = TRUE
        /\ dem.sample[p][1] # NULL

\* r is v rounded to the millimetre (v and r in 1/10000 m).
IsRounded3(r, v) == r % 10 = 0 /\ r - v <= 5 /\ v - r <= 5

\* C9: a node outside the raster extent, or inside it without a valid value
\* from the oracle, is counted as outside and keeps the InvertElev it had;
\* InvertElev is written, rounded to the millimetre, only for the nodes counted
\* as successful.
C9_OutsideKeepsElevation ==
    SyncRan =>
        /\ \A i \in Fids(nodes) :
               IF HasElevation(i)
               THEN /\ nodes[i].InvertElev # NULL
                    /\ IsRounded3(nodes[i].InvertElev[1], dem.sample[nodes[i].geom][1][1])
               ELSE nodes[i].InvertElev = prev.nodes[i].InvertElev
        /\ ret._summary.successful = Cardinality({i \in Fids(nodes) : HasElevation(i)})
        /\ ret._summary.outside_dem = Cardinality({i \in Fids(nodes) : ~HasElevation(i)})

\* A run over a node beyond the extent that kept its 5 m and a node inside for
\* which the oracle gave a value with ok false, or no value, that kept NULL.
C9_Witness ==
    /\ SyncRan
    /\ ret._summary.outside_dem = 2
    /\ \E i \in Fids(nodes) : \E j \in Fids(nodes) :
           /\ nodes[i].geom = POut /\ nodes[i].InvertElev = Some(50000)
           /\ nodes[j].geom = PIn /\ ~HasElevation(j) /\ nodes[j].InvertElev = NULL
           /\ dem.sample[PIn] \in {<<Some(1234567), FALSE>>, <<NULL, TRUE>>}

\* C10: every node gets its X and Y written, rounded to the millimetre,
\* whether the raster covers it or not; every node is counted once, as
\* successful or as outside, and the counts are returned.
C10_CoordinatesAndCounts ==
    /\ SyncRan =>
           /\ \A i \in Fids(nodes) :
                  /\ nodes[i].X # NULL /\ IsRounded3(nodes[i].X[1], nodes[i].geom[1])
                  /\ nodes[i].Y # NULL /\ IsRounded3(nodes[i].Y[1], nodes[i].geom[2])
           /\ ret._summary.total_nodes = Len(nodes)
           /\ ret._summary.total_nodes =
                  ret._summary.successful + ret._summary.outside_dem
    /\ (call.op = SyncCall /\ NODES_LAYER_NAME \notin core) =>
           /\ ret._summary.total_nodes = 0
           /\ ret._summary.successful = 0
           /\ ret._summary.outside_dem = 0

\* A run over a node 0.4 mm beyond the extent, whose X was written as 3.000 m,
\* and a node inside that got an elevation.
C10_Witness ==
    /\ SyncRan
    /\ ret._summary.total_nodes = 2
    /\ ret._summary.successful = 1
    /\ ret._summary.outside_dem = 1
    /\ \E i \in Fids(nodes) :
           /\ nodes[i].geom = POut
           /\ nodes[i].X = Some(30000) /\ nodes[i].Y = Some(10000)

-----------------------------------------------------------------------------
(* Claims about validation, checked under SpecValid.                       *)

ValidCall == "validate_layer_completeness"

ValidRan == call.op = ValidCall

\* A message is a feature name followed by the text of the failed check.
NameOf(msg) == SubSeq(msg, 1, Len(msg) - 1)

TextOf(msg) == msg[Len(msg)]

\* How many messages of the list carry the given text.
CountText(list, text) == Cardinality({k \in DOMAIN list : TextOf(list[k]) = text})

\* The attribute is a string other than ''.
Present(a) == a # NULL /\ a[1] # <<>>

\* The numeric attribute is NULL or 0.
NullOrZero(a) == a = NULL \/ a = <<0>>

\* The name the messages give to feature i of the layer.
NameFor(layer, i) ==
    IF Present(layer[i].ID) THEN layer[i].ID[1] ELSE <<"f", "i", "d", "=">> \o Str(i)

\* The checks of a feature, in the order the validator makes them, each with
\* its outcome and its text.
NodeChecks(f) ==
    << <<~Present(f.ID), ": missing ID">>,
       <<f.InvertElev = NULL, ": missing InvertElev">> >>

LinkChecks(f) ==
    << <<~Present(f.ID), ": missing ID">>,
       <<~Present(f.InletNode), ": missing InletNode">>,
       <<~Present(f.OutletNode), ": missing OutletNode">>,
       <<NullOrZero(f.Length), ": Length is 0 or missing">> >>

SubcatChecks(f) ==
    << <<~Present(f.ID), ": missing ID">>,
       <<NullOrZero(f.Area), ": Area is 0 or missing">>,
       <<NullOrZero(f.Width), ": Width is 0 or missing">>,
       <<NullOrZero(f.Slope), ": Slope is 0 or missing">> >>

Failed(check) == check[1]

\* One message for each failed check, in the order of the checks.
ExpectedMessages(checks, name) ==
    LET failed == SelectSeq(checks, Failed)
    IN  [k \in 1..Len(failed) |-> name \o <<failed[k][2]>>]

ExpectedNodes ==
    ConcatAll([i \in Fids(nodes) |->
                   ExpectedMessages(NodeChecks(nodes[i]), NameFor(nodes, i))])

ExpectedLinks ==
    ConcatAll([i \in Fids(links) |->
                   ExpectedMessages(LinkChecks(links[i]), NameFor(links, i))])

ExpectedSubcats ==
    ConcatAll([i \in Fids(subcats) |->
                   ExpectedMessages(SubcatChecks(subcats[i]), NameFor(subcats, i))])

\* C11: a node with an ID and a NULL InvertElev gets exactly one message, the
\* one about its elevation; a node whose InvertElev is 0 gets no elevation
\* message: the elevation messages are as many as the nodes with NULL
\* InvertElev.
C11_NullElevationOnly ==
    (ValidRan /\ NODES_LAYER_NAME \in core) =>
        /\ CountText(ret.Nodes, ": missing InvertElev")
               = Cardinality({i \in Fids(nodes) : nodes[i].InvertElev = NULL})
        /\ \A i \in Fids(nodes) :
               (/\ Present(nodes[i].ID)
                /\ \A j \in Fids(nodes) : j # i => nodes[j].ID # nodes[i].ID)
               => LET mine == SelectSeq(ret.Nodes,
                                        LAMBDA msg : NameOf(msg) = nodes[i].ID[1])
                  IN  IF nodes[i].InvertElev = NULL
                      THEN mine = << nodes[i].ID[1] \o <<": missing InvertElev">> >>
                      ELSE mine = <<>>

\* Node N1 without elevation and a second node at 0 m: one message in all.
C11_Witness ==
    /\ ValidRan
    /\ Len(nodes) = 2
    /\ \E i \in Fids(nodes) : \E j \in Fids(nodes) :
           /\ nodes[i].ID = Some(<<"N", "1">>) /\ nodes[i].InvertElev = NULL
           /\ nodes[j].ID = Some(<<Space>>) /\ nodes[j].InvertElev = Some(0)
    /\ ret.Nodes = << <<"N", "1", ": missing InvertElev">> >>

\* C12: the list of every layer found holds, feature after feature in layer
\* order, one message for each failed check of the feature, in the order of
\* the checks and under the feature's ID, or under fid=<n> when it has none;
\* hence as many messages as failed checks, and none when no check fails.
C12_OneMessagePerFailedCheck ==
    ValidRan =>
        /\ NODES_LAYER_NAME \in core => ret.Nodes = ExpectedNodes
        /\ LINKS_LAYER_NAME \in core => ret.Links = ExpectedLinks
        /\ SUBCATCHMENTS_LAYER_NAME \in core => ret.Subcatchments = ExpectedSubcats

\* A node and a link failing every check, a subcatchment failing none.
C12_Witness ==
    /\ ValidRan
    /\ core = LayerNames
    /\ Len(nodes) = 2 /\ Len(links) = 1 /\ Len(subcats) = 1
    /\ nodes[1].InvertElev = Some(0) /\ nodes[1].ID = Some(<<"N", "1">>)
    /\ ret.Nodes = << <<"f", "i", "d", "=", "2", ": missing ID">>,
                      <<"f", "i", "d", "=", "2", ": missing InvertElev">> >>
    /\ Len(ret.Links) = 4
    /\ ret.Links[4] = <<"f", "i", "d", "=", "1", ": Length is 0 or missing">>
    /\ ret.Subcatchments = <<>>

\* C13: a missing-ID message is given exactly for the features whose ID is
\* blank as ID generation understands it (NULL, '' or blanks only), and the
\* missing-reference messages of links follow the same test.
C13_BlankIdsReported ==
    ValidRan =>
        /\ NODES_LAYER_NAME \in core =>
               CountText(ret.Nodes, ": missing ID")
                   = Cardinality({i \in Fids(nodes) : IsBlankId(nodes[i].ID)})
        /\ LINKS_LAYER_NAME \in core =>
               /\ CountText(ret.Links, ": missing ID")
                      = Cardinality({i \in Fids(links) : IsBlankId(links[i].ID)})
               /\ CountText(ret.Links, ": missing InletNode")
                      = Cardinality({i \in Fids(links) : IsBlankId(links[i].InletNode)})
               /\ CountText(ret.Links, ": missing OutletNode")
                      = Cardinality({i \in Fids(links) : IsBlankId(links[i].OutletNode)})
        /\ SUBCATCHMENTS_LAYER_NAME \in core =>
               CountText(ret.Subcatchments, ": missing ID")
                   = Cardinality({i \in Fids(subcats) : IsBlankId(subcats[i].ID)})

\* C14: a layer the project lacks gets the single message 'Layer not found';
\* the call returns all three lists, and the layers found are validated as
\* they are when none is missing.
C14_MissingLayerOneMessage ==
    ValidRan =>
        /\ ret.Nodes =
               IF NODES_LAYER_NAME \in project
               THEN ExpectedNodes ELSE << <<"Layer not found">> >>
        /\ ret.Links =
               IF LINKS_LAYER_NAME \in project
               THEN ExpectedLinks ELSE << <<"Layer not found">> >>
        /\ ret.Subcatchments =
               IF SUBCATCHMENTS_LAYER_NAME \in project
               THEN ExpectedSubcats ELSE << <<"Layer not found">> >>

\* No nodes layer; the link of the links layer lacks its outlet and length.
C14_Witness ==
    /\ ValidRan
    /\ project = {LINKS_LAYER_NAME}
    /\ ret.Nodes = << <<"Layer not found">> >>
    /\ ret.Subcatchments = << <<"Layer not found">> >>
    /\ Len(links) = 1
    /\ ret.Links = << <<"L", "1", ": missing OutletNode">>,
                      <<"L", "1", ": Length is 0 or missing">> >>

-----------------------------------------------------------------------------
(* Claims about the exporter, checked under SpecExport.                    *)

ExportCall == "export_to_file"

\* The last operation was an export that returned success.
Exported == call.op = ExportCall /\ ret[1] = TRUE

SectionNames ==
    <<"[TITLE]", "[OPTIONS]", "[REPORT]", "[JUNCTIONS]", "[CONDUITS]", "[XSECTIONS]",
      "[SUBCATCHMENTS]", "[COORDINATES]", "[Polygons]">>

\* The line is one of the section headers and nothing else.
IsHeaderLine(line) ==
    Len(line) = 1 /\ \E k \in DOMAIN SectionNames : line[1] = SectionNames[k]

\* The line is neither blank nor a comment.
IsRow(line) == line # <<>> /\ line[1] # ";"

\* The rows of the file between the header of the section and the next header.
RowsUnder(name) ==
    LET start == CHOOSE k \in DOMAIN file : file[k] = <<name>>
        later == {k \in DOMAIN file : k > start /\ IsHeaderLine(file[k])}
        stop == IF later = {} THEN Len(file) + 1
                ELSE CHOOSE k \in later : \A m \in later : k <= m
    IN  SelectSeq(SubSeq(file, start + 1, stop - 1), IsRow)

RowName(rec, default) ==
    IF "ID" \notin DOMAIN rec THEN default
    ELSE IF rec.ID = NULL THEN <<>> ELSE TrimOf(rec.ID[1])

\* The row starts with the name, followed by a blank.
StartsWith(row, name) ==
    /\ Len(row) > Len(name)
    /\ SubSeq(row, 1, Len(name)) = name
    /\ row[Len(name) + 1] = Space

\* The section has one row for each record, in the order of the records.
RowPerRecord(section, data, default) ==
    \E rows \in {RowsUnder(section)} :
        /\ Len(rows) = Len(data)
        /\ \A k \in DOMAIN data : StartsWith(rows[k], RowName(data[k], default))

\* C16: after a successful export, [JUNCTIONS] and [COORDINATES] have one row
\* for each node, [CONDUITS] and [XSECTIONS] one for each link and
\* [SUBCATCHMENTS] one for each subcatchment, in input order.
C16_OneRowPerRecord ==
    Exported =>
        /\ RowPerRecord("[JUNCTIONS]", call.arg.nodes_data, <<"N", "O", "D", "E">>)
        /\ RowPerRecord("[COORDINATES]", call.arg.nodes_data, <<"N", "O", "D", "E">>)
        /\ RowPerRecord("[CONDUITS]", call.arg.links_data, <<"L", "I", "N", "K">>)
        /\ RowPerRecord("[XSECTIONS]", call.arg.links_data, <<"L", "I", "N", "K">>)
        /\ RowPerRecord("[SUBCATCHMENTS]", call.arg.subcatchments_data, <<"S", "U", "B">>)

\* Two nodes, one link and one subcatchment of the layers, exported.
C16_Witness ==
    /\ Exported
    /\ call.arg.nodes_data = GetNodesData(core)
    /\ Len(nodes) = 2 /\ Len(links) = 1 /\ Len(subcats) = 1
    /\ nodes[1].ID # nodes[2].ID
    /\ Len(RowsUnder("[JUNCTIONS]")) = 2
    /\ Len(RowsUnder("[CONDUITS]")) = 1
    /\ Len(RowsUnder("[SUBCATCHMENTS]")) = 1

\* The records exported are those of the layers.
FromLayers ==
    /\ call.arg.nodes_data = GetNodesData(core)
    /\ call.arg.links_data = GetLinksData(core)
    /\ call.arg.subcatchments_data = GetSubcatchmentsData(core)

\* The ring without its last point when that repeats the first.
OpenRing(ring) ==
    IF Len(ring) > 1 /\ ring[1] = ring[Len(ring)]
    THEN SubSeq(ring, 1, Len(ring) - 1) ELSE ring

\* The rings of a polygon geometry, part after part.
RingsOf(geom) ==
    IF geom.polygons = <<>> THEN <<>>
    ELSE IF geom.multipart THEN ConcatAll(geom.polygons) ELSE geom.polygons[1]

\* The points of the rings, each ring without its closing point.
OpenPoints(geom) ==
    \* the rings bound once
    LET rings == RingsOf(geom)
    IN  ConcatAll([r \in DOMAIN rings |-> OpenRing(rings[r])])

\* The [Polygons] rows wanted for subcatchment i of the layer.
WantedPolygonRows(i) ==
    LET points == OpenPoints(subcats[i].geom)
        name == IF subcats[i].ID = NULL THEN <<>> ELSE TrimOf(subcats[i].ID[1])
    IN  [k \in DOMAIN points |->
            PadRight(name, 15) \o <<Space>> \o FloatCell(points[k][1], 18, 3)
            \o <<Space>> \o FloatCell(points[k][2], 18, 3)]

\* C17: the [Polygons] rows of every subcatchment of the layer are the points
\* of its rings in ring order, each ring without its closing point: no ring's
\* first point comes again as that ring's last row, for polygons of one ring
\* and of several rings or parts alike.
C17_ClosingVertexRemoved ==
    (Exported /\ FromLayers) =>
        RowsUnder("[Polygons]") = ConcatAll([i \in Fids(subcats) |-> WantedPolygonRows(i)])

\* The record has no usable number under the key: no key, None, or a string
\* that is no number.
Unusable(rec, key) == key \notin DOMAIN rec \/ rec[key] = NULL \/ Len(rec[key]) = 2

\* The row shows the text in the columns from .. from + Len(text) - 1,
\* blanks before it up to the width of the column.
Shows(row, from, width, text) ==
    SubSeq(row, from, from + width - 1) = Spaces(width - Len(text)) \o text

\* C18: a numeric field that is missing, None or not a number is exported as
\* its fallback: length 100.0, roughness 0.009, width 50.0, slope 0.01, max
\* depth 1.0, area 1.0.
C18_FallbackConstants ==
    Exported =>
        /\ \E rows \in {RowsUnder("[JUNCTIONS]")} :
               \A k \in DOMAIN call.arg.nodes_data :
                   Unusable(call.arg.nodes_data[k], "MaxDepth")
                       => Shows(rows[k], 28, 10, <<"1", ".", "0", "0">>)
        /\ \E rows \in {RowsUnder("[CONDUITS]")} :
               \A k \in DOMAIN call.arg.links_data :
                   /\ Unusable(call.arg.links_data[k], "Length")
                          => Shows(rows[k], 53, 10, <<"1", "0", "0", ".", "0", "0">>)
                   /\ Unusable(call.arg.links_data[k], "ManningN")
                          => Shows(rows[k], 64, 10, <<"0", ".", "0", "0", "9">>)
        /\ \E rows \in {RowsUnder("[SUBCATCHMENTS]")} :
               \A k \in DOMAIN call.arg.subcatchments_data :
                   /\ Unusable(call.arg.subcatchments_data[k], "Area")
                          => Shows(rows[k], 53, 8, <<"1", ".", "0", "0">>)
                   /\ Unusable(call.arg.subcatchments_data[k], "Width")
                          => Shows(rows[k], 71, 8, <<"5", "0", ".", "0", "0">>)
                   /\ Unusable(call.arg.subcatchments_data[k], "Slope")
                          => Shows(rows[k], 80, 8, <<"0", ".", "0", "1">>)

\* C19: an export to a path that can be written returns (True, message) and
\* writes the text, whatever the records hold: None, '', 0, strings that are
\* no numbers, keys left out.
C19_ExportNeverAborts ==
    (call.op = ExportCall /\ call.arg.filepath = "writable") =>
        /\ Len(ret) = 2
        /\ ret[1] = TRUE
        /\ ret[2] = <<"File exported successfully:", Len(call.arg.nodes_data),
                      Len(call.arg.links_data), Len(call.arg.subcatchments_data)>>
        /\ file # NoFile

\* The export of the records holding strings where numbers are expected.
C19_Witness ==
    /\ Exported
    /\ call.arg.links_data = InvalidRecords.links_data
    /\ call.arg.links_data[1].Length = Text(<<"a", "b", "c">>)
    /\ Len(RowsUnder("[CONDUITS]")) = 1
    /\ Len(RowsUnder("[Polygons]")) = 6

\* C20: an export whose file cannot be opened or written returns
\* (False, message); every export returns a pair, no exception leaves it.
C20_WriteFailureReturned ==
    call.op = ExportCall =>
        /\ Len(ret) = 2
        /\ ret[1] \in BOOLEAN
        /\ call.arg.filepath # "writable" =>
               ret[1] = FALSE /\ ret[2] = <<"Export failed:">>

\* After a successful export, one whose write fails: the file is cut short.
C20_Witness ==
    /\ call.op = ExportCall
    /\ call.arg.filepath = "write fails"
    /\ ret[1] = FALSE
    /\ file = <<>>
    /\ call.arg.nodes_data # <<>>

-----------------------------------------------------------------------------
(* Claims about the derived attributes, checked under SpecCalc.            *)

\* The last operation was auto_calculate_link_length on a links layer
LengthRan == call.op = "auto_calculate_link_length" /\ LINKS_LAYER_NAME \in core

\* The last operation was auto_calculate_subcatchment_area on a
\* subcatchments layer
AreaRan ==
    call.op = "auto_calculate_subcatchment_area" /\ SUBCATCHMENTS_LAYER_NAME \in core

\* The last operation was auto_calculate_subcatchment_slope_and_width on a
\* subcatchments layer, with a raster
SlopeRan ==
    /\ call.op = "auto_calculate_subcatchment_slope_and_width"
    /\ SUBCATCHMENTS_LAYER_NAME \in core
    /\ call.arg # NULL

\* What the elevation oracle of that run answers at a point
Oracle(pt) == Val(call.arg).sample[pt]

\* No later feature of the layer has the key of feature i in the mapping
LastOfKey(layer, i) ==
    \A j \in Fids(layer) : j > i => FeatureKey(layer, j) # FeatureKey(layer, i)

\* C21: every batch derivation is total.  After auto_calculate_link_length
\* every link has a Length and the returned mapping has as many entries as
\* the layer has links; after auto_calculate_subcatchment_area and
\* auto_calculate_subcatchment_slope_and_width every subcatchment has its
\* Area, or its Slope and Width, and the returned mapping has as many
\* entries as the layer has subcatchments, whatever the IDs and geometries.
C21_OneResultPerFeature ==
    /\ LengthRan =>
           /\ \A i \in Fids(links) : links[i].Length # NULL
           /\ Cardinality(DOMAIN ret) = Len(links)
    /\ AreaRan =>
           /\ \A i \in Fids(subcats) : subcats[i].Area # NULL
           /\ Cardinality(DOMAIN ret) = Len(subcats)
    /\ SlopeRan =>
           /\ \A i \in Fids(subcats) : subcats[i].Slope # NULL /\ subcats[i].Width # NULL
           /\ Cardinality(DOMAIN ret) = Len(subcats)

\* All points of the geometry coincide: the bounding box has no extent
ZeroExtent(geom) == \A p, q \in GeometryPoints(geom) : p = q

\* w, in 1/10000 m, is the square root of a2 / 2 cm2 rounded to whole
\* centimetres
IsRoundedSqrt(w, a2) ==
    LET c == w \div 100
    IN  /\ w % 100 = 0
        /\ c = 0 \/ (2 * c - 1) * (2 * c - 1) <= 2 * a2
        /\ 2 * a2 < (2 * c + 1) * (2 * c + 1)

GridCentre(geom, c) ==
    LET xs == {p[1] : p \in GeometryPoints(geom)}
        ys == {p[2] : p \in GeometryPoints(geom)}
    IN  <<Min(xs) + ((Max(xs) - Min(xs)) * (2 * c[1] + 1)) \div 10,
          Min(ys) + ((Max(ys) - Min(ys)) * (2 * c[2] + 1)) \div 10>>

Grid5x5 == (0..4) \X (0..4)

\* The cells whose centre lies inside the polygon and has a valid elevation
ValidCells(geom) ==
    {c \in Grid5x5 :
        /\ Contains(geom, GridCentre(geom, c))
        /\ Oracle(GridCentre(geom, c))[2]
        /\ Oracle(GridCentre(geom, c))[1] # NULL}

CellElevations(geom) == {Oracle(GridCentre(geom, c))[1][1] : c \in ValidCells(geom)}

\* v is a / b rounded to a whole number
IsRoundedQuotient(v, a, b) == 2 * Abs(v * b - a) <= b

\* C23: after auto_calculate_subcatchment_slope_and_width, for a
\* subcatchment whose bounding box has an extent: with fewer than 2 grid
\* centres that lie inside the polygon and have a valid elevation the slope
\* is 0.5 %; otherwise it is (max - min) of the elevations at these centres
\* over max(box width, box height), as a percentage of 2 decimals; the width
\* is the area over max(box width, box height), to the centimetre.
C23_SlopeAndWidthFromSamples ==
    SlopeRan =>
        \A i \in Fids(subcats) :
            LET geom == subcats[i].geom
                char_cm == CharLen(BoundingBox(geom)) \div 100
                slope == Val(subcats[i].Slope)
                width == Val(subcats[i].Width)
            IN  ~ZeroExtent(geom) =>
                    /\ subcats[i].Slope # NULL /\ subcats[i].Width # NULL
                    /\ IF Cardinality(ValidCells(geom)) < 2 THEN slope = 5000
                       ELSE /\ slope % 100 = 0
                            /\ IsRoundedQuotient(
                                   slope \div 100,
                                   100 * (Max(CellElevations(geom)) - Min(CellElevations(geom))),
                                   char_cm)
                    /\ width % 100 = 0
                    /\ IsRoundedQuotient(width \div 100, GeometryArea2(geom), 2 * char_cm)

\* The run computed a slope from two or more elevations for a polygon of
\* whose grid centres one has a valid elevation and lies outside.
C23_Witness ==
    /\ SlopeRan
    /\ \E i \in Fids(subcats) :
           /\ ~ZeroExtent(subcats[i].geom)
           /\ Cardinality(ValidCells(subcats[i].geom)) >= 2
           /\ \E c \in Grid5x5 \ ValidCells(subcats[i].geom) :
                  /\ Oracle(GridCentre(subcats[i].geom, c))[2]
                  /\ Oracle(GridCentre(subcats[i].geom, c))[1] # NULL
           /\ subcats[i].Slope \notin {Some(0), Some(5000)}

\* C24: after auto_calculate_subcatchment_area every subcatchment has, in
\* the layer and in the returned mapping, its planar area in m2 divided by
\* 10000 and rounded to 4 decimals (1/10000 ha = 1 m2); the rectangle of
\* 100 m by 200 m has 2.0000 ha.
C24_AreaInHectares ==
    AreaRan =>
        \A i \in Fids(subcats) :
            /\ subcats[i].Area # NULL
            /\ IsRoundedQuotient(Val(subcats[i].Area), GeometryArea2(subcats[i].geom), 20000)
            /\ subcats[i].geom = Rect100x200 => subcats[i].Area = Some(20000)
            /\ subcats[i].geom = SmallRect => subcats[i].Area = Some(57)
            /\ LastOfKey(subcats, i) =>
                   ret[FeatureKey(subcats, i)] = Val(subcats[i].Area)

\* The run met the rectangle of 100 m by 200 m and stored and returned
\* 2.0000 ha for it.
C24_Witness ==
    /\ AreaRan
    /\ \E i \in Fids(subcats) :
           /\ subcats[i].geom = Rect100x200
           /\ subcats[i].Area = Some(20000)
           /\ ret[FeatureKey(subcats, i)] = 20000

-----------------------------------------------------------------------------
(* Claim about the fields of the exported rows, checked under SpecExport.  *)

\* The number of whitespace-separated fields of a line
FieldCount(line) ==
    Cardinality({k \in DOMAIN line : line[k] # Space /\ (k = 1 \/ line[k - 1] = Space)})

\* Every row of the section has n fields
FieldsUnder(section, n) ==
    \E rows \in {RowsUnder(section)} : \A k \in DOMAIN rows : FieldCount(rows[k]) = n

\* C27: after a successful export every row under [JUNCTIONS] has exactly 6
\* whitespace-separated fields, every row under [CONDUITS] 9, every row under
\* [SUBCATCHMENTS] 8, and every row under [COORDINATES] and [Polygons] 3,
\* whatever records were passed.
C27_RowFieldCounts ==
    Exported =>
        /\ FieldsUnder("[JUNCTIONS]", 6)
        /\ FieldsUnder("[CONDUITS]", 9)
        /\ FieldsUnder("[SUBCATCHMENTS]", 8)
        /\ FieldsUnder("[COORDINATES]", 3)
        /\ FieldsUnder("[Polygons]", 3)

-----------------------------------------------------------------------------
(* Claims about the core as a whole: layers removed from the project,      *)
(* edit sessions, the attributes each operation writes, and validation     *)
(* after ID generation.                                                    *)

CoreOps ==
    {"generate_auto_ids", "sync_elevations_from_dem", "auto_snap_links_to_nodes",
     "auto_calculate_link_length", "auto_calculate_subcatchment_area",
     "auto_calculate_subcatchment_slope_and_width", "validate_layer_completeness"}

\* The last call returned (it did not raise).
Returned == "raises" \notin DOMAIN call

\* The layer is not in the project.
Gone(name) == name \notin project

LayerNotFound == << <<"Layer not found">> >>

\* What the last call returned is what it returns for a missing layer `name`.
MissingResult(name) ==
    CASE call.op = "validate_layer_completeness" ->
             /\ name = NODES_LAYER_NAME => ret.Nodes = LayerNotFound
             /\ name = LINKS_LAYER_NAME => ret.Links = LayerNotFound
             /\ name = SUBCATCHMENTS_LAYER_NAME => ret.Subcatchments = LayerNotFound
      [] call.op = "generate_auto_ids" ->
             /\ name = NODES_LAYER_NAME => ret.nodes = 0
             /\ name = LINKS_LAYER_NAME => ret.links = 0
             /\ name = SUBCATCHMENTS_LAYER_NAME => ret.subcatchments = 0
      [] call.op = "sync_elevations_from_dem" ->
             name = NODES_LAYER_NAME =>
                 /\ ret._summary.total_nodes = 0
                 /\ ret._summary.message = <<"Nodes layer not found.">>
      [] call.op = "auto_snap_links_to_nodes" ->
             name \in {NODES_LAYER_NAME, LINKS_LAYER_NAME} => ret = EmptyDict
      [] call.op = "auto_calculate_link_length" ->
             name = LINKS_LAYER_NAME => ret = EmptyDict
      [] OTHER ->
             name = SUBCATCHMENTS_LAYER_NAME => ret = EmptyDict

\* C25: after a layer has been removed from the project, every core operation
\* returns, returns what it returns for a missing layer (an empty result, a
\* count of 0, or 'Layer not found' from the validator), and leaves the
\* features of the removed layer as they were.
C25_RemovedLayerTreatedAsMissing ==
    call.op \in CoreOps =>
        \A name \in LayerNames :
            Gone(name) =>
                /\ Returned
                /\ MissingResult(name)
                /\ name = NODES_LAYER_NAME => nodes = prev.nodes
                /\ name = LINKS_LAYER_NAME => links = prev.links
                /\ name = SUBCATCHMENTS_LAYER_NAME => subcats = prev.subcats

MutatingOps == CoreOps \ {"validate_layer_completeness"}

\* The layers the operation `op` called with `arg` edits when the core has
\* the layers `found`: none when it returns early.
Edited(op, arg, found) ==
    CASE op = "generate_auto_ids" -> found
      [] op = "sync_elevations_from_dem" -> {NODES_LAYER_NAME} \cap found
      [] op = "auto_snap_links_to_nodes" ->
             IF NODES_LAYER_NAME \in found THEN {LINKS_LAYER_NAME} \cap found ELSE {}
      [] op = "auto_calculate_link_length" -> {LINKS_LAYER_NAME} \cap found
      [] op = "auto_calculate_subcatchment_area" -> {SUBCATCHMENTS_LAYER_NAME} \cap found
      [] op = "auto_calculate_subcatchment_slope_and_width" ->
             IF arg = NULL THEN {} ELSE {SUBCATCHMENTS_LAYER_NAME} \cap found
      [] OTHER -> {}

\* C26: a mutating operation leaves no layer it edits in an edit session,
\* opens no session on any other layer, and changes no session at all when
\* it returns early because a layer (or the DEM) is missing.
C26_EditSessionsClosed ==
    [][call'.op \in MutatingOps =>
           \E done \in {Edited(call'.op, call'.arg, core')} :
               /\ editing' \cap done = {}
               /\ editing' \subseteq editing
               /\ done = {} => editing' = editing
               /\ editing' = editing \ done]_vars

\* The links layer was in the project, auto_calculate_link_length wrote the
\* lengths, and no layer is in an edit session.
C26_Witness ==
    /\ call.op = "auto_calculate_link_length"
    /\ LINKS_LAYER_NAME \in core
    /\ links # prev.links
    /\ editing = {}

\* The attributes the operation `op` may change, per layer.
OwnAttributes(op) ==
    CASE op = "generate_auto_ids" ->
             [nodes |-> {"ID"}, links |-> {"ID"}, subcats |-> {"ID"}]
      [] op = "sync_elevations_from_dem" ->
             [nodes |-> {"X", "Y", "InvertElev"}, links |-> {}, subcats |-> {}]
      [] op = "auto_snap_links_to_nodes" ->
             [nodes |-> {}, links |-> {"InletNode", "OutletNode"}, subcats |-> {}]
      [] op = "auto_calculate_link_length" ->
             [nodes |-> {}, links |-> {"Length"}, subcats |-> {}]
      [] op = "auto_calculate_subcatchment_area" ->
             [nodes |-> {}, links |-> {}, subcats |-> {"Area"}]
      [] op = "auto_calculate_subcatchment_slope_and_width" ->
             [nodes |-> {}, links |-> {}, subcats |-> {"Slope", "Width"}]
      [] OTHER -> [nodes |-> {}, links |-> {}, subcats |-> {}]

\* The feature without the given attributes (the geometry stays).
Without(feat, fields) == [f \in DOMAIN feat \ fields |-> feat[f]]

\* The two layers have the same features, equal but for the given attributes.
SameExcept(old, new, fields) ==
    /\ DOMAIN old = DOMAIN new
    /\ \A i \in DOMAIN old : Without(old[i], fields) = Without(new[i], fields)

\* C28: no step of the core adds or deletes a feature or changes a geometry,
\* and each operation changes only its own attributes: generate_auto_ids ID;
\* sync_elevations_from_dem X, Y and InvertElev of nodes;
\* auto_snap_links_to_nodes InletNode and OutletNode of links;
\* auto_calculate_link_length Length; auto_calculate_subcatchment_area Area;
\* auto_calculate_subcatchment_slope_and_width Slope and Width; validation
\* and export (extraction included) nothing.
C28_OnlyOwnAttributes ==
    [][\E own \in {OwnAttributes(call'.op)} :
           /\ SameExcept(nodes, nodes', own.nodes)
           /\ SameExcept(links, links', own.links)
           /\ SameExcept(subcats, subcats', own.subcats)]_vars

\* auto_calculate_subcatchment_area changed the area of a subcatchment that
\* has an ID, a slope and a width.
C28_Witness ==
    /\ call.op = "auto_calculate_subcatchment_area"
    /\ \E i \in Fids(subcats) :
           /\ subcats[i].Area # prev.subcats[i].Area
           /\ subcats[i].ID # NULL
           /\ subcats[i].Slope # NULL
           /\ subcats[i].Width # NULL

\* No message of the list says 'missing ID', and every message carries the
\* ID of a feature of the layer.
NamedById(list, layer) ==
    \A k \in DOMAIN list :
        /\ TextOf(list[k]) # ": missing ID"
        /\ \E i \in Fids(layer) :
               /\ Present(layer[i].ID)
               /\ NameOf(list[k]) = layer[i].ID[1]

\* C29: once generate_auto_ids has run, every later validation reports, for
\* each layer the core has, no 'missing ID' message and only messages that
\* name their feature by its ID, whatever the IDs were before.
C29_NoMissingIdAfterGeneration ==
    [](IdsRan =>
           [](ValidRan =>
                  /\ NODES_LAYER_NAME \in core => NamedById(ret.Nodes, nodes)
                  /\ LINKS_LAYER_NAME \in core => NamedById(ret.Links, links)
                  /\ SUBCATCHMENTS_LAYER_NAME \in core =>
                         NamedById(ret.Subcatchments, subcats)))

\* The validation came right after a generation that gave IDs to two or more
\* nodes, and it has messages for the nodes.
C29_Witness ==
    /\ ValidRan
    /\ prev.call.op = IdsCall
    /\ prev.ret.nodes >= 2
    /\ Len(ret.Nodes) >= 2

====
